---- MODULE Spec2Model ----
(***************************************************************************)
(* The local mailbox store of my_inbox_impl (ClientImpl, MessageImpl,      *)
(* AttachmentImpl) as a state machine: the tracked folder list, the        *)
(* in-memory folder -> messages mapping, and the directories and message   *)
(* files under data_dir.                                                   *)
(***************************************************************************)
EXTENDS Integers, Sequences, FiniteSets, TLC

VARIABLES folders, messages, dirs, files, op, gmail, iterator

vars == <<folders, messages, dirs, files, op, gmail, iterator>>

(***************************************************************************)
(* Bounds of the model.                                                    *)
(***************************************************************************)
\* add_message is not taken once this many messages are held in memory
MaxMsgs == 2

(***************************************************************************)
(* Values.                                                                 *)
(***************************************************************************)
\* self._folders = ["INBOX", "Sent", "Drafts", "Trash", "Archive"]
DefaultFolders == <<"INBOX", "Sent", "Drafts", "Trash", "Archive">>

\* the folder name delete_message compares with
Trash == "Trash"

\* folder names the callers pass: two defaults and one name that is not a
\* default, which is untracked until create_folder registers it
UserFolder == "Work"

OpFolders == {"INBOX", Trash, UserFolder}

\* the folders the callers read, move out of and move into
ReadFolders == {"INBOX", UserFolder}

SourceFolders == {"INBOX", UserFolder}

TargetFolders == {Trash, UserFolder}

\* a string the code inspects (an id, a subject, a query, ...) is the sequence
\* of its characters; the id, where a call has none, is the empty string
NoId == <<>>

\* the hours datetime.now() can read during one call
ClockReadings == {5, 6}

\* the clocks that stay at the first reading, one for each number of readings
SteadyClocks ==
    {[i \in 1..n |-> CHOOSE t \in ClockReadings : \A u \in ClockReadings : t <= u] :
        n \in 0..MaxMsgs}

\* the query the callers of the store search for
Query == <<"h", "i">>

\* the message ids the callers use
Ids == {<<"a">>, <<"b">>}

\* an optional string (str | None): <<>> is None, <<s>> is the string s
None == <<>>

\* a date string, by the strptime format it matches and the fields it holds
Date(fmt, wall, off) == [fmt |-> fmt, wall |-> wall, off |-> off]

\* AttachmentImpl(filename, content_type, content)
AttachmentImpl(filename, content_type, content) ==
    [filename |-> filename, content_type |-> content_type, content |-> content]

\* MessageImpl(_id, _from, _to, _subject, _body, _date, _cc, _bcc, _attachments, _is_read)
MessageImpl(id, from, to, subject, body, date, cc, bcc, attachments, is_read) ==
    [id |-> id, from_ |-> from, to |-> to, cc |-> cc, bcc |-> bcc, date |-> date,
     subject |-> subject, body |-> body, attachments |-> attachments,
     is_read |-> is_read]

(***************************************************************************)
(* Serialization: MessageImpl.to_dict and MessageImpl.from_dict.  Bytes    *)
(* are sequences over 0..255, their hex form a sequence of hex digits.     *)
(***************************************************************************)
HexDigits == <<"0", "1", "2", "3", "4", "5", "6", "7",
               "8", "9", "a", "b", "c", "d", "e", "f">>

\* two digits per byte, low nibble first
RECURSIVE hex_LowFirst(_)
hex_LowFirst(bytes) ==
    IF bytes = <<>> THEN <<>>
    ELSE <<HexDigits[(Head(bytes) % 16) + 1], HexDigits[(Head(bytes) \div 16) + 1]>>
         \o hex_LowFirst(Tail(bytes))

\* bytes.hex(): two digits per byte, high nibble first
RECURSIVE hex(_)
hex(bytes) ==
    IF bytes = <<>> THEN <<>>
    ELSE <<HexDigits[(Head(bytes) \div 16) + 1], HexDigits[(Head(bytes) % 16) + 1]>>
         \o hex(Tail(bytes))

HexValue(ch) == CHOOSE v \in 0..15 : HexDigits[v + 1] = ch

IsHexDigit(ch) == \E v \in 0..15 : HexDigits[v + 1] = ch

\* bytes.fromhex() accepts an even number of hex digits
ValidHex(digits) ==
    /\ Len(digits) % 2 = 0
    /\ \A i \in 1..Len(digits) : IsHexDigit(digits[i])

RECURSIVE fromhex(_)
fromhex(digits) ==
    IF Len(digits) < 2 THEN <<>>
    ELSE <<HexValue(digits[1]) * 16 + HexValue(digits[2])>>
         \o fromhex(SubSeq(digits, 3, Len(digits)))

to_dict(m) ==
    [id |-> m.id, from |-> m.from_, to |-> m.to, cc |-> m.cc, bcc |-> m.bcc,
     date |-> m.date, subject |-> m.subject, body |-> m.body,
     is_read |-> m.is_read,
     attachments |->
        [i \in 1..Len(m.attachments) |->
            [filename |-> m.attachments[i].filename,
             content_type |-> m.attachments[i].content_type,
             content |-> hex(m.attachments[i].content)]]]

\* data.get(key, default)
DictGet(data, key, default) == IF key \in DOMAIN data THEN data[key] ELSE default

from_dict(data) ==
    LET attachments == DictGet(data, "attachments", <<>>)
    IN  MessageImpl(data.id, data.from, data.to, data.subject, data.body, data.date,
                    DictGet(data, "cc", None), DictGet(data, "bcc", None),
                    [i \in 1..Len(attachments) |->
                        AttachmentImpl(attachments[i].filename,
                                       attachments[i].content_type,
                                       fromhex(attachments[i].content))],
                    data.is_read)

\* the keys from_dict reads with data[key]
RequiredKeys == {"id", "from", "to", "date", "subject", "body", "is_read"}

\* what the loop body of from_dict raises for one attachment entry, "None"
\* when it raises nothing: the content is read and decoded first
AttachmentError(attachment_data) ==
    IF "content" \notin DOMAIN attachment_data THEN "KeyError"
    ELSE IF ~ValidHex(attachment_data.content) THEN "ValueError"
    ELSE IF ~({"filename", "content_type"} \subseteq DOMAIN attachment_data) THEN "KeyError"
    ELSE "None"

\* what from_dict(data) raises, "None" when it returns: the attachments are
\* built before the other keys are read
FromDictError(data) ==
    LET attachments == DictGet(data, "attachments", <<>>)
        raising == {i \in 1..Len(attachments) : AttachmentError(attachments[i]) # "None"}
    IN  IF raising # {}
        THEN AttachmentError(attachments[CHOOSE i \in raising : \A j \in raising : i <= j])
        ELSE IF ~(RequiredKeys \subseteq DOMAIN data) THEN "KeyError"
        ELSE "None"

\* the content of a file that is not JSON
NotJson == [text |-> "{"]

\* what json.load and from_dict raise for the content of one file, "None"
\* when the file gives a message
LoadError(content) ==
    IF content = NotJson THEN "JSONDecodeError" ELSE FromDictError(content)

(***************************************************************************)
(* The messages the callers add.  Two of them share an id and differ in    *)
(* their fields.                                                           *)
(***************************************************************************)
MessageVariants(id) ==
    IF id = <<"a">>
    THEN {MessageImpl(id, <<"a", "l">>, <<"b", "o">>, <<"H", "i">>, <<"t", "x">>,
                      Date("rfc_tz", 2, 0), None, None, <<>>, FALSE),
          MessageImpl(id, <<"c", "a">>, <<"b", "o">>, <<"y", "o">>, <<"t", "x">>,
                      Date("rfc_tz", 1, 0), <<<<"d">>>>, None,
                      <<AttachmentImpl("f.bin", "application/octet-stream", <<0, 171>>)>>,
                      FALSE)}
    ELSE {MessageImpl(id, <<"a", "l">>, <<"b", "o">>, <<"o", "h", "i", "o">>, <<"t", "x">>,
                      Date("rfc_tz", 3, 0), None, None, <<>>, FALSE)}

MessagePool == UNION {MessageVariants(id) : id \in Ids}

(***************************************************************************)
(* Helpers on the store's state.                                           *)
(***************************************************************************)
Range(s) == {s[i] : i \in 1..Len(s)}

\* folder in self._folders
Tracked(fs, folder) == \E i \in 1..Len(fs) : fs[i] = folder

\* self._messages.get(folder, [])
MessagesGet(msgs, folder) == IF folder \in DOMAIN msgs THEN msgs[folder] ELSE <<>>

\* the loop "for i, message in enumerate(...): if message.id == message_id":
\* the first position holding the id, 0 when the loop ends without a match
FindMessage(s, message_id) ==
    IF \E i \in 1..Len(s) : s[i].id = message_id
    THEN CHOOSE i \in 1..Len(s) :
            /\ s[i].id = message_id
            /\ \A j \in 1..(i - 1) : s[j].id # message_id
    ELSE 0

\* list.pop(i) / del list[i]: the list without position i
Pop(s, i) == SubSeq(s, 1, i - 1) \o SubSeq(s, i + 1, Len(s))

\* self._messages[folder] = value (the key is added when missing)
SetFolder(msgs, folder, value) ==
    [f \in DOMAIN msgs \cup {folder} |-> IF f = folder THEN value ELSE msgs[f]]

\* the file paths: <<folder, id>> stands for data_dir/folder/id.json
Path(folder, message_id) == <<folder, message_id>>

\* os.path.exists(file_path)
Exists(fs, path) == path \in DOMAIN fs

\* SaveMessage that keeps a file that is already there (mode "x")
SaveMessage_KeepExisting(fs, message, folder) ==
    [p \in DOMAIN fs \cup {Path(folder, message.id)} |->
        IF p \in DOMAIN fs THEN fs[p] ELSE to_dict(message)]

\* open(file_path, "w"); json.dump(message.to_dict(), f): creates or replaces
SaveMessage(fs, message, folder) ==
    [p \in DOMAIN fs \cup {Path(folder, message.id)} |->
        IF p = Path(folder, message.id) THEN to_dict(message) ELSE fs[p]]

\* os.rename(source_path, target_path): replaces the target when it exists
Rename(fs, source_path, target_path) ==
    IF source_path = target_path THEN fs
    ELSE [p \in (DOMAIN fs \ {source_path}) \cup {target_path} |->
            IF p = target_path THEN fs[source_path] ELSE fs[p]]

\* os.remove(file_path)
Remove(fs, path) == [p \in DOMAIN fs \ {path} |-> fs[p]]

\* the number of messages held in memory, over all folders
RECURSIVE SumLen(_, _)
SumLen(msgs, S) ==
    IF S = {} THEN 0
    ELSE LET f == CHOOSE x \in S : TRUE
         IN  Len(msgs[f]) + SumLen(msgs, S \ {f})

TotalMessages(msgs) == SumLen(msgs, DOMAIN msgs)

\* the record of the last call: its name, arguments and outcome; out is what
\* the call returned or yielded, <<>> when it returned nothing, args the
\* arguments the other fields do not hold
Call(name, message_id, source, target, message, result) ==
    [name |-> name, id |-> message_id, source |-> source, target |-> target,
     message |-> message, result |-> result, args |-> <<>>, out |-> <<>>]

\* the record of a call that returned or yielded out
Returned(call, out) == [call EXCEPT !.out = out]

\* the record of a call with arguments the other fields do not hold
WithArgs(call, args) == [call EXCEPT !.args = args]

(***************************************************************************)
(* Construction: ClientImpl.__init__ and _load_messages.                   *)
(***************************************************************************)
\* every order of the elements of a finite set (os.listdir gives no order)
RECURSIVE Orderings(_)
Orderings(S) ==
    IF S = {} THEN {<<>>}
    ELSE UNION {{<<x>> \o rest : rest \in Orderings(S \ {x})} : x \in S}

\* the message files of one folder directory
MessageFiles(fs, folder) == {p \in DOMAIN fs : p[1] = folder}

\* the errors the except clause of _load_messages catches
Caught == {"JSONDecodeError", "KeyError"}

\* the file is passed over with a printed line
Skipped(fs, path) == LoadError(fs[path]) \in Caught

\* the files of the tracked folders whose error leaves _load_messages
Uncaught(fs, tracked) ==
    {p \in DOMAIN fs : Tracked(tracked, p[1]) /\ LoadError(fs[p]) # "None" /\ ~Skipped(fs, p)}

\* the lists _load_messages can build for one folder
LoadFolder(fs, folder) ==
    {LET loaded == SelectSeq(order, LAMBDA p : ~Skipped(fs, p))
     IN  [i \in 1..Len(loaded) |-> from_dict(fs[loaded[i]])] :
        order \in Orderings(MessageFiles(fs, folder))}

\* the mappings _load_messages can return for the tracked folders
RECURSIVE LoadMessages(_, _)
LoadMessages(fs, tracked) ==
    IF tracked = <<>> THEN {<<>>}
    ELSE {(Head(tracked) :> loaded) @@ rest :
            loaded \in LoadFolder(fs, Head(tracked)),
            rest \in LoadMessages(fs, Tail(tracked))}

\* GmailClient(credentials_file, token_file): self.service = None and
\* self.credentials = None, beside the token file and the client secrets
\* file the two paths name
GmailClient(token, secrets) ==
    [service |-> None, credentials |-> None, token |-> token, secrets |-> secrets,
     requests |-> 0]

\* no generator of get_messages or search_messages is held by a caller
NoIterator == [kind |-> "none"]

Init ==
    /\ folders = DefaultFolders
    /\ dirs = Range(DefaultFolders)
    /\ files = <<>>
    /\ messages = [f \in Range(DefaultFolders) |-> <<>>]
    /\ op = Call("__init__", NoId, "", "", <<>>, "None")
    /\ gmail = GmailClient(None, FALSE)
    /\ iterator = NoIterator

\* a new ClientImpl on the data_dir the earlier one left; when
\* _load_messages raises there is no store
Restart ==
    /\ dirs' = dirs \cup Range(DefaultFolders)
    /\ IF Uncaught(files, DefaultFolders) = {}
       THEN /\ folders' = DefaultFolders
            /\ messages' \in LoadMessages(files, DefaultFolders)
            /\ op' = Call("__init__", NoId, "", "", <<>>, "None")
       ELSE /\ folders' = <<>>
            /\ messages' = <<>>
            /\ \E p \in Uncaught(files, DefaultFolders) :
                  op' = Call("__init__", NoId, "", "", <<>>, LoadError(files[p]))
    /\ UNCHANGED <<files, gmail, iterator>>

(***************************************************************************)
(* The operations of ClientImpl.  A call that raises leaves its error in   *)
(* op.result; a call that returns leaves "None", "True" or "False".        *)
(***************************************************************************)
\* the strptime formats safe_date_key tries, in this order
DateFormats == <<"%a, %d %b %Y %H:%M:%S %z", "%a, %d %b %Y %H:%M:%S +0000",
                 "%a, %d %b %Y %H:%M:%S", "%d %b %Y %H:%M:%S %z">>

\* datetime.strptime(date, format) returns instead of raising ValueError.  A
\* date is "rfc_tz" (weekday form with a numeric offset, "+0000" when off is
\* 0), "rfc_naive" (weekday form, no offset), "dmy_tz" (no weekday, numeric
\* offset) or "bad" (any other string)
Strptime(date, format) ==
    CASE format = DateFormats[1] -> date.fmt = "rfc_tz"
      [] format = DateFormats[2] -> date.fmt = "rfc_tz" /\ date.off = 0
      [] format = DateFormats[3] -> date.fmt = "rfc_naive"
      [] format = DateFormats[4] -> date.fmt = "dmy_tz"

\* safe_date_key(msg) when datetime.now() reads now: a datetime, aware or
\* naive, and the hour it names (in UTC when aware)
safe_date_key(msg, now) ==
    IF Strptime(msg.date, DateFormats[1])
    THEN [aware |-> TRUE, t |-> msg.date.wall - msg.date.off]
    ELSE IF Strptime(msg.date, DateFormats[2])
    THEN [aware |-> FALSE, t |-> msg.date.wall]
    ELSE IF Strptime(msg.date, DateFormats[3])
    THEN [aware |-> TRUE, t |-> msg.date.wall]
    ELSE IF Strptime(msg.date, DateFormats[4])
    THEN [aware |-> TRUE, t |-> msg.date.wall - msg.date.off]
    ELSE [aware |-> TRUE, t |-> now]

\* datetime.min and datetime.max, in the hours the dates are counted in
MinHour == 0
MaxHour == 9

\* dt.astimezone(datetime.timezone.utc) raises OverflowError in
\* safe_date_key(msg): the date was read with its offset, and the hour it
\* names in UTC is before datetime.min or after datetime.max
Overflows(msg) ==
    /\ \/ Strptime(msg.date, DateFormats[1])
       \/ /\ ~Strptime(msg.date, DateFormats[2])
          /\ ~Strptime(msg.date, DateFormats[3])
          /\ Strptime(msg.date, DateFormats[4])
    /\ msg.date.wall - msg.date.off \notin MinHour..MaxHour

\* the insertion step of an ascending sort
InsertDesc_Ascending(s, i, keys) ==
    LET n == Cardinality({p \in 1..Len(s) : keys[s[p]].t <= keys[i].t})
    IN  SubSeq(s, 1, n) \o <<i>> \o SubSeq(s, n + 1, Len(s))

\* the insertion step of a sort that puts a position before the positions
\* of equal key
InsertDesc_BeforeEqual(s, i, keys) ==
    LET n == Cardinality({p \in 1..Len(s) : keys[s[p]].t > keys[i].t})
    IN  SubSeq(s, 1, n) \o <<i>> \o SubSeq(s, n + 1, Len(s))

\* position i enters the sorted positions s behind every position whose key
\* is not smaller: equal keys keep their order in the list
InsertDesc(s, i, keys) ==
    LET n == Cardinality({p \in 1..Len(s) : keys[s[p]].t >= keys[i].t})
    IN  SubSeq(s, 1, n) \o <<i>> \o SubSeq(s, n + 1, Len(s))

\* sorted(list, key=..., reverse=True), as the positions of the first n
\* elements in their sorted order; the sort is stable
RECURSIVE SortedDesc(_, _)
SortedDesc(keys, n) ==
    IF n = 0 THEN <<>> ELSE InsertDesc(SortedDesc(keys, n - 1), n, keys)

\* sorted_messages[:limit] with one element too many
SliceTo_OneMore(s, limit) ==
    IF limit >= 0
    THEN SubSeq(s, 1, IF limit + 1 < Len(s) THEN limit + 1 ELSE Len(s))
    ELSE SubSeq(s, 1, Len(s) + limit)

\* sorted_messages[:limit]
SliceTo(s, limit) ==
    IF limit >= 0
    THEN SubSeq(s, 1, IF limit < Len(s) THEN limit ELSE Len(s))
    ELSE SubSeq(s, 1, Len(s) + limit)

\* get_messages(limit, folder), run to its end; clock[i] is what
\* datetime.now() reads when the key of the i-th message of the list is taken
get_messages(msgs, tracked, limit, folder, clock) ==
    IF ~Tracked(tracked, folder)
    THEN [result |-> "UnknownFolder", out |-> <<>>]
    ELSE LET list == MessagesGet(msgs, folder)
             keys == [i \in 1..Len(list) |-> safe_date_key(list[i], clock[i])]
         IN  IF \E i \in 1..Len(list) : Overflows(list[i])
             THEN [result |-> "OverflowError", out |-> <<>>]
             ELSE IF \E i, j \in 1..Len(list) : keys[i].aware # keys[j].aware
             THEN [result |-> "TypeError", out |-> <<>>]
             ELSE LET order == SortedDesc(keys, Len(list))
                      sorted_messages == [i \in 1..Len(list) |-> list[order[i]]]
                  IN  [result |-> "None",
                       out |-> IF limit = None THEN sorted_messages
                               ELSE SliceTo(sorted_messages, limit[1])]

\* list(client.get_messages(limit, folder)): the folder check runs when the
\* iterator is first advanced; limit is None or <<n>>, and the clock is read
\* once for each message of the folder
GetMessages(limit, folder, clock) ==
    LET r == get_messages(messages, folders, limit, folder, clock)
    IN  /\ Len(clock) = Len(MessagesGet(messages, folder))
        /\ op' = Returned(WithArgs(Call("get_messages", NoId, folder, "", <<>>, r.result),
                                   [limit |-> limit, clock |-> clock]),
                          r.out)
        /\ UNCHANGED <<folders, messages, dirs, files, gmail, iterator>>

UpperLetters == <<"A", "B", "C", "D", "E", "F", "G", "H", "I", "J", "K", "L", "M",
                  "N", "O", "P", "Q", "R", "S", "T", "U", "V", "W", "X", "Y", "Z">>

LowerLetters == <<"a", "b", "c", "d", "e", "f", "g", "h", "i", "j", "k", "l", "m",
                  "n", "o", "p", "q", "r", "s", "t", "u", "v", "w", "x", "y", "z">>

\* str.lower()
lower(text) ==
    [i \in 1..Len(text) |->
        IF \E k \in 1..Len(UpperLetters) : UpperLetters[k] = text[i]
        THEN LowerLetters[CHOOSE k \in 1..Len(UpperLetters) : UpperLetters[k] = text[i]]
        ELSE text[i]]

\* query in text
In(query, text) ==
    \E k \in 0..(Len(text) - Len(query)) : SubSeq(text, k + 1, k + Len(query)) = query

\* the condition of search_messages with the id tested like the other fields
QueryMatches_IdContains(query, message) ==
    \/ In(query, lower(message.subject))
    \/ In(query, lower(message.body))
    \/ In(query, lower(message.from_))
    \/ In(query, lower(message.to))
    \/ In(lower(query), lower(message.id))

\* the condition of search_messages; query is already lowered
QueryMatches(query, message) ==
    \/ In(query, lower(message.subject))
    \/ In(query, lower(message.body))
    \/ In(query, lower(message.from_))
    \/ In(query, lower(message.to))
    \/ lower(message.id) = lower(query)

\* search_messages whose matches come out newest first
search_messages_ByDate(msgs, tracked, query, folder) ==
    IF ~Tracked(tracked, folder)
    THEN [result |-> "UnknownFolder", out |-> <<>>]
    ELSE LET Test(message) == QueryMatches(lower(query), message)
             found == SelectSeq(MessagesGet(msgs, folder), Test)
             keys == [i \in 1..Len(found) |-> safe_date_key(found[i], 0)]
             order == SortedDesc(keys, Len(found))
         IN  [result |-> "None", out |-> [i \in 1..Len(found) |-> found[order[i]]]]

\* search_messages(query, folder), run to its end
search_messages(msgs, tracked, query, folder) ==
    IF ~Tracked(tracked, folder)
    THEN [result |-> "UnknownFolder", out |-> <<>>]
    ELSE LET Test(message) == QueryMatches(lower(query), message)
         IN  [result |-> "None", out |-> SelectSeq(MessagesGet(msgs, folder), Test)]

\* list(client.search_messages(query, folder))
SearchMessages(query, folder) ==
    LET r == search_messages(messages, folders, query, folder)
    IN  /\ op' = Returned(WithArgs(Call("search_messages", NoId, folder, "", <<>>, r.result),
                                   [query |-> query]),
                          r.out)
        /\ UNCHANGED <<folders, messages, dirs, files, gmail, iterator>>

\* client.get_folders(): return self._folders
GetFolders ==
    /\ op' = Returned(Call("get_folders", NoId, "", "", <<>>, "None"), folders)
    /\ UNCHANGED <<folders, messages, dirs, files, gmail, iterator>>

\* add_message, lines 344-347: append to the folder's list
AddInMemory(msgs, message, folder) ==
    SetFolder(msgs, folder, Append(MessagesGet(msgs, folder), message))

\* add_message(message, folder): what it raises and the store it leaves;
\* failed is whether open() in _save_message raises
add_message(msgs, fs, tracked, message, folder, failed) ==
    IF ~Tracked(tracked, folder)
    THEN [result |-> "UnknownFolder", messages |-> msgs, files |-> fs]
    ELSE [result |-> IF failed THEN "IOFailure" ELSE "None",
          messages |-> AddInMemory(msgs, message, folder),
          files |-> IF failed THEN fs ELSE SaveMessage(fs, message, folder)]

\* client.add_message(message, folder)
AddMessage(message, folder, failed) ==
    LET r == add_message(messages, files, folders, message, folder, failed)
    IN  /\ TotalMessages(messages) < MaxMsgs
        /\ messages' = r.messages
        /\ files' = r.files
        /\ op' = Call("add_message", message.id, folder, "", <<message>>, r.result)
        /\ UNCHANGED <<folders, dirs, gmail, iterator>>

\* RegisterFolder without the entry in self._messages
RegisterFolder_NoEntry(fs, msgs, folder_name) ==
    [folders |-> Append(fs, folder_name), messages |-> msgs]

\* RegisterFolder that builds the mapping anew
RegisterFolder_Reset(fs, msgs, folder_name) ==
    [folders |-> Append(fs, folder_name),
     messages |-> [f \in DOMAIN msgs \cup {folder_name} |-> <<>>]]

\* create_folder, lines 368-370: register the folder with an empty list
RegisterFolder(fs, msgs, folder_name) ==
    [folders |-> Append(fs, folder_name),
     messages |-> SetFolder(msgs, folder_name, <<>>)]

\* MakedirsFailed with the folder registered before the directory is made
MakedirsFailed_Registered(fs, msgs, folder_name) == RegisterFolder(fs, msgs, folder_name)

\* create_folder, line 366: os.makedirs raises, lines 369-370 are not reached
MakedirsFailed(fs, msgs, folder_name) == [folders |-> fs, messages |-> msgs]

\* client.create_folder(folder_name); os.makedirs raises when the directory
\* is already there
CreateFolder(folder_name) ==
    IF Tracked(folders, folder_name)
    THEN /\ op' = Call("create_folder", NoId, folder_name, "", <<>>, "FolderExists")
         /\ UNCHANGED <<folders, messages, dirs, files, gmail, iterator>>
    ELSE IF folder_name \in dirs
    THEN /\ folders' = MakedirsFailed(folders, messages, folder_name).folders
         /\ messages' = MakedirsFailed(folders, messages, folder_name).messages
         /\ op' = Call("create_folder", NoId, folder_name, "", <<>>, "IOFailure")
         /\ UNCHANGED <<dirs, files, gmail, iterator>>
    ELSE /\ dirs' = dirs \cup {folder_name}
         /\ folders' = RegisterFolder(folders, messages, folder_name).folders
         /\ messages' = RegisterFolder(folders, messages, folder_name).messages
         /\ op' = Call("create_folder", NoId, folder_name, "", <<>>, "None")
         /\ UNCHANGED <<files, gmail, iterator>>

\* MoveInMemory that pops the message and never appends it
MoveInMemory_Drop(msgs, i, source_folder, target_folder) ==
    SetFolder(msgs, source_folder, Pop(msgs[source_folder], i))

\* MoveInMemory that appends the message and never pops it
MoveInMemory_Copy(msgs, i, source_folder, target_folder) ==
    SetFolder(msgs, target_folder,
              Append(MessagesGet(msgs, target_folder), msgs[source_folder][i]))

\* MoveInMemory that appends to the target list as it was before the pop
MoveInMemory_StaleTarget(msgs, i, source_folder, target_folder) ==
    LET message == msgs[source_folder][i]
        popped == SetFolder(msgs, source_folder, Pop(msgs[source_folder], i))
    IN  SetFolder(popped, target_folder,
                  Append(MessagesGet(msgs, target_folder), message))

\* move_message, lines 434-440: pop from the source list, append to the target
MoveInMemory(msgs, i, source_folder, target_folder) ==
    LET message == msgs[source_folder][i]
        popped == SetFolder(msgs, source_folder, Pop(msgs[source_folder], i))
    IN  SetFolder(popped, target_folder,
                  Append(MessagesGet(popped, target_folder), message))

\* MoveOnDisk that writes nothing when the source file is missing
MoveOnDisk_RenameOnly(fs, message, source_folder, target_folder) ==
    IF Exists(fs, Path(source_folder, message.id))
    THEN Rename(fs, Path(source_folder, message.id), Path(target_folder, message.id))
    ELSE fs

\* move_message, lines 442-454: rename the file, or save it when it is missing
MoveOnDisk(fs, message, source_folder, target_folder) ==
    IF Exists(fs, Path(source_folder, message.id))
    THEN Rename(fs, Path(source_folder, message.id), Path(target_folder, message.id))
    ELSE SaveMessage(fs, message, target_folder)

\* FoldersExist without the check of the target folder
FoldersExist_SourceOnly(tracked, source_folder, target_folder) ==
    Tracked(tracked, source_folder)

\* move_message, lines 426-429: both folders are in self._folders
FoldersExist(tracked, source_folder, target_folder) ==
    Tracked(tracked, source_folder) /\ Tracked(tracked, target_folder)

\* NotFound reporting success
NotFound_True(msgs, fs) == [result |-> "True", messages |-> msgs, files |-> fs]

\* "return False" after a loop that found no message with the id
NotFound(msgs, fs) == [result |-> "False", messages |-> msgs, files |-> fs]

\* move_message(message_id, source_folder, target_folder): its result and
\* the memory and files it leaves
move_message(msgs, fs, tracked, message_id, source_folder, target_folder) ==
    IF ~FoldersExist(tracked, source_folder, target_folder)
    THEN [result |-> "UnknownFolder", messages |-> msgs, files |-> fs]
    ELSE LET i == FindMessage(MessagesGet(msgs, source_folder), message_id)
         IN  IF i = 0
             THEN NotFound(msgs, fs)
             ELSE [result |-> "True",
                   messages |-> MoveInMemory(msgs, i, source_folder, target_folder),
                   files |-> MoveOnDisk(fs, msgs[source_folder][i], source_folder,
                                        target_folder)]

\* client.move_message(message_id, source_folder, target_folder)
MoveMessage(message_id, source_folder, target_folder) ==
    LET r == move_message(messages, files, folders, message_id, source_folder,
                          target_folder)
    IN  /\ messages' = r.messages
        /\ files' = r.files
        /\ op' = WithArgs(Call("move_message", message_id, source_folder, target_folder,
                               <<>>, r.result),
                          [source_exists |->
                               Exists(files, Path(source_folder, message_id))])
        /\ UNCHANGED <<folders, dirs, gmail, iterator>>

\* delete_message, lines 394-407: drop the message from Trash and its file
delete_from_trash(msgs, fs, message_id, folder) ==
    LET i == FindMessage(MessagesGet(msgs, folder), message_id)
    IN  IF i = 0
        THEN NotFound(msgs, fs)
        ELSE [result |-> "True",
              messages |-> SetFolder(msgs, folder, Pop(msgs[folder], i)),
              files |-> IF Exists(fs, Path(folder, message_id))
                        THEN Remove(fs, Path(folder, message_id)) ELSE fs]

\* delete_message(message_id, folder): outside Trash it is a move into Trash
delete_message(msgs, fs, tracked, message_id, folder) ==
    IF ~Tracked(tracked, folder)
    THEN [result |-> "UnknownFolder", messages |-> msgs, files |-> fs]
    ELSE IF folder # Trash
    THEN move_message(msgs, fs, tracked, message_id, folder, Trash)
    ELSE delete_from_trash(msgs, fs, message_id, folder)

\* client.delete_message(message_id, folder)
DeleteMessage(message_id, folder) ==
    LET r == delete_message(messages, files, folders, message_id, folder)
    IN  /\ messages' = r.messages
        /\ files' = r.files
        /\ op' = Call("delete_message", message_id, folder, "", <<>>, r.result)
        /\ UNCHANGED <<folders, dirs, gmail, iterator>>

Next ==
    \/ Restart
    \/ \E folder \in ReadFolders, clock \in SteadyClocks : GetMessages(None, folder, clock)
    \/ \E folder \in ReadFolders : SearchMessages(Query, folder)
    \/ GetFolders
    \/ \E message \in MessagePool, folder \in OpFolders, failed \in BOOLEAN :
          AddMessage(message, folder, failed)
    \/ \E folder_name \in OpFolders : CreateFolder(folder_name)
    \/ \E message_id \in Ids, source_folder \in SourceFolders, target_folder \in TargetFolders :
          MoveMessage(message_id, source_folder, target_folder)
    \/ \E message_id \in Ids, folder \in OpFolders : DeleteMessage(message_id, folder)

Spec == Init /\ [][Next]_vars

\* the store under the calls that change it, with every write to disk
\* succeeding and no restart
NextCompleted ==
    \/ \E message \in MessagePool, folder \in OpFolders : AddMessage(message, folder, FALSE)
    \/ \E folder_name \in OpFolders : CreateFolder(folder_name)
    \/ \E message_id \in Ids, source_folder \in SourceFolders, target_folder \in TargetFolders :
          MoveMessage(message_id, source_folder, target_folder)
    \/ \E message_id \in Ids, folder \in OpFolders : DeleteMessage(message_id, folder)

SpecCompleted == Init /\ [][NextCompleted]_vars

(***************************************************************************)
(* Listing and searching one folder: the store holds a list of messages    *)
(* in INBOX, added in that order, and is read with every limit, clock and  *)
(* query.                                                                  *)
(***************************************************************************)
\* the longest list of messages the folder holds
MaxList == 2

\* the messages of the folder: their dates are of every form, two of them
\* name one wall-clock hour at different offsets, one is later than every
\* clock reading, one names the first hour of datetime at an offset east of
\* UTC, one names in another format the instant another message names; "ab" is an id, a proper part of an id, a cc, and part of a subject,
\* a body, a sender and a recipient in mixed case
ReadPool ==
    {MessageImpl(<<"a", "b">>, <<"f">>, <<"t">>, <<"z", "z">>, <<>>,
                 Date("rfc_tz", 5, 0), None, None, <<>>, FALSE),
     MessageImpl(<<"x", "a", "b">>, <<"f">>, <<"t">>, <<"z", "z">>, <<>>,
                 Date("rfc_tz", 5, 2), <<<<"a", "b">>>>, None, <<>>, FALSE),
     MessageImpl(<<"k">>, <<"f">>, <<"t">>, <<"c", "A", "B", "c">>, <<>>,
                 Date("rfc_naive", 4, 0), None, None, <<>>, FALSE),
     MessageImpl(<<"m">>, <<"f">>, <<"t">>, <<"z", "z">>, <<"a", "b">>,
                 Date("dmy_tz", 6, 0 - 1), None, None, <<>>, TRUE),
     MessageImpl(<<"n">>, <<"A", "b">>, <<"a", "B">>, <<"z", "z">>, <<>>,
                 Date("bad", 0, 0), None, None, <<>>, FALSE),
     MessageImpl(<<"o">>, <<"f">>, <<"t">>, <<"z", "z">>, <<>>,
                 Date("rfc_tz", MinHour, 2), None, None, <<>>, FALSE),
     MessageImpl(<<"p">>, <<"f">>, <<"t">>, <<"z", "z">>, <<>>,
                 Date("dmy_tz", 4, 0 - 1), None, None, <<>>, FALSE)}

\* the lists of at most n elements of S
Lists(S, n) == UNION {[1..k -> S] : k \in 0..n}

\* the limits the callers pass: None, and <<n>> for the integer n
ReadLimits == {None} \cup {<<n>> : n \in (0 - 1)..MaxList}

\* the readings of datetime.now() over n key computations: time does not
\* run backwards
Clocks(n) == {clock \in [1..n -> ClockReadings] :
                 \A i, j \in 1..n : i <= j => clock[i] <= clock[j]}

\* the queries the callers pass
ReadQueries == {<<"a", "b">>, <<"A", "B">>, <<"z">>, <<>>}

\* _save_message for each message of a list, in order
RECURSIVE SaveAll(_, _, _)
SaveAll(fs, list, folder) ==
    IF list = <<>> THEN fs
    ELSE SaveAll(SaveMessage(fs, Head(list), folder), Tail(list), folder)

\* a store after add_message(m, "INBOX") for each m of a list
InitRead ==
    \E list \in Lists(ReadPool, MaxList) :
        /\ folders = DefaultFolders
        /\ dirs = Range(DefaultFolders)
        /\ files = SaveAll(<<>>, list, "INBOX")
        /\ messages = [f \in Range(DefaultFolders) |-> IF f = "INBOX" THEN list ELSE <<>>]
        /\ op = Call("__init__", NoId, "", "", <<>>, "None")
        /\ gmail = GmailClient(None, FALSE)
        /\ iterator = NoIterator
    /\ iterator = NoIterator

NextRead ==
    \/ \E limit \in ReadLimits, clock \in UNION {Clocks(n) : n \in 0..MaxList} :
          GetMessages(limit, "INBOX", clock)
    \/ \E query \in ReadQueries : SearchMessages(query, "INBOX")
    \/ GetFolders

SpecRead == InitRead /\ [][NextRead]_vars

(***************************************************************************)
(* Serialization on its own: to_dict of a message, then from_dict of the   *)
(* dictionary.                                                             *)
(***************************************************************************)
\* the most attachments a serialized message carries
MaxAtts == 2

\* attachments with no bytes, with the smallest and a middle byte, and with
\* the largest byte
CodecAttachments ==
    {AttachmentImpl("e.bin", "application/octet-stream", <<>>),
     AttachmentImpl("f.bin", "application/octet-stream", <<0, 171>>),
     AttachmentImpl("g.txt", "text/plain", <<255, 16>>)}

\* the messages that are serialized: cc and bcc given or None, read or
\* unread, every list of attachments
CodecPool ==
    {MessageImpl(<<"a">>, <<"f">>, <<"t">>, <<"s">>, <<"b">>, Date("rfc_tz", 1, 0),
                 cc, bcc, attachments, is_read) :
        cc \in {None, <<<<"c">>>>}, bcc \in {None, <<<<"d">>>>},
        attachments \in Lists(CodecAttachments, MaxAtts), is_read \in BOOLEAN}

\* data = message.to_dict()
ToDict(message) ==
    /\ op' = Returned(Call("to_dict", message.id, "", "", <<message>>, "None"),
                      <<to_dict(message)>>)
    /\ UNCHANGED <<folders, messages, dirs, files, gmail, iterator>>

\* MessageImpl.from_dict(data), for the dictionary the last call returned
FromDict ==
    /\ op.name = "to_dict"
    /\ op' = IF FromDictError(op.out[1]) = "None"
             THEN Returned(Call("from_dict", op.id, "", "", op.message, "None"),
                           <<from_dict(op.out[1])>>)
             ELSE Call("from_dict", op.id, "", "", op.message, FromDictError(op.out[1]))
    /\ UNCHANGED <<folders, messages, dirs, files, gmail, iterator>>

NextCodec ==
    \/ \E message \in CodecPool : ToDict(message)
    \/ FromDict

SpecCodec == Init /\ [][NextCodec]_vars

(***************************************************************************)
(* Construction on a data_dir that holds files the store did not write.    *)
(***************************************************************************)
\* the files of the data_dir: two in INBOX, one in Trash
LoadPaths == {Path("INBOX", <<"a">>), Path("INBOX", <<"b">>), Path(Trash, <<"a">>)}

\* what a file can hold: a saved message; text that is not JSON; a
\* dictionary without "subject"; one without the optional keys; one whose
\* attachment has a payload that is not hex; one whose attachment has no
\* payload
FileContents(message_id) ==
    LET message == MessageImpl(message_id, <<"f">>, <<"t">>, <<"s">>, <<"b">>,
                               Date("rfc_tz", 1, 0), None, None,
                               <<AttachmentImpl("f.bin", "application/octet-stream",
                                                <<0, 171>>)>>, FALSE)
        data == to_dict(message)
    IN  {data,
         NotJson,
         [key \in DOMAIN data \ {"subject"} |-> data[key]],
         [key \in DOMAIN data \ {"cc", "bcc", "attachments"} |-> data[key]],
         [data EXCEPT !.attachments = <<[data.attachments[1] EXCEPT !.content = <<"z", "z">>]>>],
         [data EXCEPT !.attachments =
             <<[key \in {"filename", "content_type"} |-> data.attachments[1][key]]>>]}

\* a data_dir with the default folder directories and some files, and no
\* store constructed on it yet
InitLoad ==
    \E present \in SUBSET LoadPaths :
        \E fs \in [present -> UNION {FileContents(p[2]) : p \in LoadPaths}] :
            /\ \A p \in present : fs[p] \in FileContents(p[2])
            /\ files = fs
            /\ dirs = Range(DefaultFolders)
            /\ folders = <<>>
            /\ messages = <<>>
            /\ op = Call("", NoId, "", "", <<>>, "None")
            /\ gmail = GmailClient(None, FALSE)
        /\ iterator = NoIterator
    /\ iterator = NoIterator

NextLoad == Restart

SpecLoad == InitLoad /\ [][NextLoad]_vars

(***************************************************************************)
(* IMAPFetcher._extract_content: the body and the attachments of a parsed  *)
(* email.  A payload is a sequence of bytes, a text the sequence of its    *)
(* characters.                                                             *)
(***************************************************************************)
\* the most leaf parts a multipart email has
MaxParts == 3

\* one part of an email as part.walk() gives it, containers left out: its
\* content type, the value of its Content-Disposition header ("" when it
\* has none), its file name or None, its charset and its payload
EmailPart(content_type, disposition, filename, charset, payload) ==
    [content_type |-> content_type, disposition |-> disposition,
     filename |-> filename, charset |-> charset, payload |-> payload]

\* the characters of the bytes that are ASCII, for the bytes in use
Ascii == (60 :> "<") @@ (62 :> ">") @@ (72 :> "H") @@ (98 :> "b") @@ (105 :> "i")

\* the character errors="replace" puts for a byte that does not decode
Replacement == "U+FFFD"

\* the charsets Python knows
KnownCharsets == {"utf-8", "us-ascii"}

\* payload.decode(charset, errors="replace") for a known charset
Decode(payload) ==
    [i \in 1..Len(payload) |->
        IF payload[i] \in DOMAIN Ascii THEN Ascii[payload[i]] ELSE Replacement]

\* "[HTML Content]\n"
HtmlMarker == <<"[", "H", "T", "M", "L", " ", "C", "o", "n", "t", "e", "n", "t", "]", "\n">>

\* "[Message body could not be decoded]"
UndecodedBody == <<"[", "M", "e", "s", "s", "a", "g", "e", " ", "b", "o", "d", "y", " ",
                   "c", "o", "u", "l", "d", " ", "n", "o", "t", " ", "b", "e", " ",
                   "d", "e", "c", "o", "d", "e", "d", "]">>

\* f"attachment_{n}"
GeneratedNames == <<"attachment_0", "attachment_1", "attachment_2", "attachment_3",
                    "attachment_4", "attachment_5", "attachment_6", "attachment_7">>

\* "attachment", the text looked for in the Content-Disposition header
AttachmentWord == <<"a", "t", "t", "a", "c", "h", "m", "e", "n", "t">>

\* the Content-Disposition headers of the parts
ContentDispositions ==
    [none |-> <<>>,
     attachment |-> <<"a", "t", "t", "a", "c", "h", "m", "e", "n", "t">>,
     attachment_named |->
         <<"a", "t", "t", "a", "c", "h", "m", "e", "n", "t", ";", " ", "f", "i", "l", "e", "n", "a", "m", "e", "=", "f", ".", "p", "d", "f">>,
     inline |-> <<"i", "n", "l", "i", "n", "e">>,
     inline_named |->
         <<"i", "n", "l", "i", "n", "e", ";", " ", "f", "i", "l", "e", "n", "a", "m", "e", "=", "a", "t", "t", "a", "c", "h", "m", "e", "n", "t", ".", "t", "x", "t">>,
     capital |->
         <<"A", "t", "t", "a", "c", "h", "m", "e", "n", "t", ";", " ", "f", "i", "l", "e", "n", "a", "m", "e", "=", "n", ".", "t", "x", "t">>]

\* the branch for a text/html part that is taken whatever the body holds
HtmlIsUsed_Always(body) == TRUE

\* "and not body": the branch for a text/html part is taken
HtmlIsUsed(body) == body = <<>>

\* the loop over email_message.walk(), from the body and the attachments
\* collected so far
RECURSIVE WalkParts(_, _, _)
WalkParts(parts, body, attachments) ==
    IF parts = <<>> THEN [body |-> body, attachments |-> attachments]
    ELSE LET part == Head(parts)
         IN  IF \/ In(AttachmentWord, part.disposition)
                \/ part.content_type \notin {"text/plain", "text/html"}
             THEN WalkParts(Tail(parts), body,
                            Append(attachments,
                                   AttachmentImpl(IF part.filename # None
                                                  THEN part.filename[1]
                                                  ELSE GeneratedNames[Len(attachments) + 1],
                                                  part.content_type, part.payload)))
             ELSE IF part.content_type = "text/plain"
             THEN WalkParts(Tail(parts),
                            IF part.charset \in KnownCharsets
                            THEN body \o Decode(part.payload) ELSE body,
                            attachments)
             ELSE IF HtmlIsUsed(body)
             THEN WalkParts(Tail(parts),
                            IF part.charset \in KnownCharsets
                            THEN body \o HtmlMarker \o Decode(part.payload) ELSE body,
                            attachments)
             ELSE WalkParts(Tail(parts), body, attachments)

\* _extract_content(email_message): a multipart email is walked, any other
\* email gives its decoded payload as the body
extract_content(email_message) ==
    IF email_message.is_multipart
    THEN WalkParts(email_message.parts, <<>>, <<>>)
    ELSE LET part == email_message.parts[1]
         IN  [body |-> IF part.charset \notin KnownCharsets THEN UndecodedBody
                       ELSE Decode(part.payload),
              attachments |-> <<>>]

\* the parts of the emails: plain text, empty plain text, HTML, plain text
\* in a charset Python does not know, a named file, an unnamed image, plain
\* text sent as a file, inline plain text with a file name, and plain text
\* sent as a file under a capitalised disposition
PartPool ==
    {EmailPart("text/plain", ContentDispositions.none, None, "utf-8", <<72, 105>>),
     EmailPart("text/plain", ContentDispositions.none, None, "utf-8", <<>>),
     EmailPart("text/html", ContentDispositions.none, None, "utf-8", <<60, 98, 62>>),
     EmailPart("text/plain", ContentDispositions.none, None, "x-unknown", <<72, 105, 233>>),
     EmailPart("application/pdf", ContentDispositions.attachment_named, <<"f.pdf">>,
               "utf-8", <<0, 171>>),
     EmailPart("image/png", ContentDispositions.inline, None, "utf-8", <<255>>),
     EmailPart("text/plain", ContentDispositions.attachment, None, "utf-8", <<105>>),
     EmailPart("text/plain", ContentDispositions.inline_named, <<"attachment.txt">>, "utf-8",
               <<98, 105>>),
     EmailPart("text/plain", ContentDispositions.capital, <<"n.txt">>, "utf-8", <<105, 98>>)}

\* the emails: every multipart email of at most MaxParts leaf parts, and
\* every single part as an email of its own
Emails ==
    {[is_multipart |-> TRUE, parts |-> parts] : parts \in Lists(PartPool, MaxParts)}
    \cup {[is_multipart |-> FALSE, parts |-> <<part>>] : part \in PartPool}

\* an email has been parsed from the bytes the server sent
InitMime ==
    /\ folders = DefaultFolders
    /\ dirs = Range(DefaultFolders)
    /\ files = <<>>
    /\ messages = [f \in Range(DefaultFolders) |-> <<>>]
    /\ gmail = GmailClient(None, FALSE)
    /\ iterator = NoIterator
    /\ \E email_message \in Emails :
          op = Call("message_from_bytes", NoId, "", "", <<email_message>>, "None")

\* body, attachments = self._extract_content(email_message)
ExtractContent ==
    /\ op.name = "message_from_bytes"
    /\ op' = Returned(Call("_extract_content", NoId, "", "", op.message, "None"),
                      <<extract_content(op.message[1])>>)
    /\ UNCHANGED <<folders, messages, dirs, files, gmail, iterator>>

NextMime == ExtractContent

SpecMime == InitMime /\ [][NextMime]_vars

(***************************************************************************)
(* The fetchers of mail_fetcher.py, with a client set: MockFetcher and     *)
(* IMAPFetcher hand every message they make to add_message.                *)
(***************************************************************************)
\* the most messages one fetch_messages call makes, and the store holds
MaxFetch == 2

\* str(uuid.uuid4()): the values it gives, in the order it gives them
Uuids == <<<<"u", "1">>, <<"u", "2">>, <<"u", "3">>, <<"u", "4">>,
           <<"u", "5">>, <<"u", "6">>, <<"u", "7">>, <<"u", "8">>>>

\* the uuids no message in memory or on disk has as its id
FreshUuids(msgs, fs) ==
    SelectSeq(Uuids, LAMBDA u :
        /\ \A f \in DOMAIN msgs : \A i \in 1..Len(msgs[f]) : msgs[f][i].id # u
        /\ \A p \in DOMAIN fs : p[2] # u)

\* str(i) for one digit
Digits == <<"1", "2", "3", "4", "5", "6", "7", "8", "9">>

\* f"attachment_{i}.txt"
MockFilenames == <<"attachment_1.txt", "attachment_2.txt", "attachment_3.txt",
                   "attachment_4.txt", "attachment_5.txt", "attachment_6.txt",
                   "attachment_7.txt", "attachment_8.txt", "attachment_9.txt">>

\* the i-th message of _generate_mock_messages, i from 0, with the id uuid4
\* gave and the local hour datetime.now() read
MockMessage(i, uuid, now) ==
    LET number == <<Digits[i + 1]>>
        test_message == <<"T", "e", "s", "t", " ", "M", "e", "s", "s", "a",
                          "g", "e", " ">> \o number
        subject ==
            IF i % 3 = 0
            THEN <<"I", "m", "p", "o", "r", "t", "a", "n", "t", ":", " ">> \o test_message
            ELSE IF i % 3 = 1
            THEN <<"N", "e", "w", "s", "l", "e", "t", "t", "e", "r", ":",
                   " ">> \o test_message
            ELSE test_message
        body ==
            IF i % 3 = 0
            THEN <<"T", "h", "i", "s", " ", "i", "s", " ", "t", "e", "s",
                   "t", " ", "m", "e", "s", "s", "a", "g", "e", " ">> \o number
                 \o <<" ", "w", "i", "t", "h", " ", "s", "o", "m", "e", " ",
                      "i", "m", "p", "o", "r", "t", "a", "n", "t", " ", "c",
                      "o", "n", "t", "e", "n", "t", " ", "t", "o", " ", "t",
                      "e", "s", "t", " ", "s", "e", "a", "r", "c", "h", " ",
                      "f", "u", "n", "c", "t", "i", "o", "n", "a", "l", "i",
                      "t", "y", ".">>
            ELSE IF i % 3 = 1
            THEN <<"N", "e", "w", "s", "l", "e", "t", "t", "e", "r", " ">> \o number
                 \o <<":", " ", "U", "p", "d", "a", "t", "e", "s", " ", "a",
                      "n", "d", " ", "i", "n", "f", "o", "r", "m", "a", "t",
                      "i", "o", "n", " ", "a", "b", "o", "u", "t", " ", "o",
                      "u", "r", " ", "l", "a", "t", "e", "s", "t", " ", "d",
                      "e", "v", "e", "l", "o", "p", "m", "e", "n", "t", "s",
                      ".">>
            ELSE <<"T", "h", "i", "s", " ", "i", "s", " ", "a", " ", "r",
                   "e", "g", "u", "l", "a", "r", " ", "m", "e", "s", "s",
                   "a", "g", "e", " ">> \o number
                 \o <<" ", "w", "i", "t", "h", " ", "n", "o", "t", "h", "i",
                      "n", "g", " ", "p", "a", "r", "t", "i", "c", "u", "l",
                      "a", "r", "l", "y", " ", "s", "p", "e", "c", "i", "a",
                      "l", " ", "a", "b", "o", "u", "t", " ", "i", "t", ".">>
        text_content ==
            <<84, 104, 105, 115, 32, 105, 115, 32, 116, 104, 101, 32, 99,
              111, 110, 116, 101, 110, 116, 32, 111, 102, 32, 97, 116, 116,
              97, 99, 104, 109, 101, 110, 116, 32>>
            \o <<48 + i + 1>>
    IN  MessageImpl(uuid,
                    <<"s", "e", "n", "d", "e", "r", "@", "e", "x", "a", "m",
                      "p", "l", "e", ".", "c", "o", "m">>,
                    <<"r", "e", "c", "i", "p", "i", "e", "n", "t", "@", "e",
                      "x", "a", "m", "p", "l", "e", ".", "c", "o", "m">>,
                    subject, body, Date("rfc_tz", now - i, 0),
                    IF i % 2 = 0
                    THEN <<<<"c", "c", "@", "e", "x", "a", "m", "p", "l",
                             "e", ".", "c", "o", "m">>>>
                    ELSE None,
                    IF i % 3 = 0
                    THEN <<<<"b", "c", "c", "@", "e", "x", "a", "m", "p",
                             "l", "e", ".", "c", "o", "m">>>>
                    ELSE None,
                    IF i % 2 = 0
                    THEN <<AttachmentImpl(MockFilenames[i + 1], "text/plain", text_content)>>
                    ELSE <<>>,
                    FALSE)

\* _generate_mock_messages(count)
generate_mock_messages(count, uuids, now) ==
    [k \in 1..count |-> MockMessage(k - 1, uuids[k], now)]

\* the loop "for message in list: try: add_message(message, folder) except
\* Exception: print(...)": the store it leaves and the messages whose call
\* returned; failed[k] is whether _save_message raises for the k-th message
RECURSIVE AddEach(_, _, _, _, _, _, _)
AddEach(msgs, fs, tracked, list, folder, failed, added) ==
    IF list = <<>> THEN [messages |-> msgs, files |-> fs, added |-> added]
    ELSE LET r == add_message(msgs, fs, tracked, Head(list), folder, Head(failed))
         IN  AddEach(r.messages, r.files, tracked, Tail(list), folder, Tail(failed),
                     IF r.result = "None" THEN Append(added, Head(list)) ELSE added)

\* fetcher.fetch_messages(folder, count) of a MockFetcher
MockFetchMessages(folder, count, failed, now) ==
    LET mock_messages == generate_mock_messages(count, FreshUuids(messages, files), now)
        r == AddEach(messages, files, folders, mock_messages, folder, failed, <<>>)
    IN  /\ Len(failed) = count
        /\ TotalMessages(messages) + count <= MaxFetch
        /\ messages' = r.messages
        /\ files' = r.files
        /\ op' = Returned(WithArgs(Call("MockFetcher.fetch_messages", NoId, folder, "",
                                        <<>>, "None"),
                                   [count |-> count, failed |-> failed]),
                          mock_messages)
        /\ UNCHANGED <<folders, dirs, gmail, iterator>>

\* an email on the IMAP server: its headers, None where it has none, and
\* its content
RawEmail(message_id, subject, from, to, cc, bcc, date, content) ==
    [message_id |-> message_id, subject |-> subject, from |-> from, to |-> to,
     cc |-> cc, bcc |-> bcc, date |-> date, content |-> content]

\* email_message.get(name, default)
HeaderGet(header, default) == IF header = None THEN default ELSE header[1]

\* text.strip("<>")
RECURSIVE Strip(_)
Strip(text) ==
    IF text # <<>> /\ Head(text) \in {"<", ">"} THEN Strip(Tail(text))
    ELSE IF text # <<>> /\ text[Len(text)] \in {"<", ">"}
    THEN Strip(SubSeq(text, 1, Len(text) - 1))
    ELSE text

\* _decode_header(header), for a header without encoded words:
\* email.header.decode_header gives such a header back as one str part
decode_header(header) == IF header = <<>> THEN <<>> ELSE header

\* the date MessageImpl.__init__ makes when it is given None: the local
\* hour, written with "+0000"
DefaultDate(now) == Date("rfc_tz", now, 0)

\* _parse_message(email_message); uuid is what str(uuid.uuid4()) gives
parse_message(email_message, uuid, now) ==
    LET given == HeaderGet(email_message.message_id, uuid)
        message_id == Strip(IF given = <<>> THEN uuid ELSE given)
        cc_header == email_message.cc
        bcc_header == email_message.bcc
        content == extract_content(email_message.content)
    IN  MessageImpl(message_id,
                    decode_header(HeaderGet(email_message.from, <<"U", "n", "k", "n", "o", "w", "n">>)),
                    decode_header(HeaderGet(email_message.to, <<>>)),
                    decode_header(HeaderGet(email_message.subject,
                        <<"N", "o", " ", "S", "u", "b", "j", "e", "c", "t">>)),
                    content.body,
                    IF email_message.date = None THEN DefaultDate(now)
                    ELSE email_message.date[1],
                    IF cc_header # None /\ cc_header[1] # <<>>
                    THEN <<decode_header(cc_header[1])>> ELSE None,
                    IF bcc_header # None /\ bcc_header[1] # <<>>
                    THEN <<decode_header(bcc_header[1])>> ELSE None,
                    content.attachments, FALSE)

\* message_ids[-limit:]
LastN(s, limit) ==
    IF limit = 0 THEN s
    ELSE IF limit > 0 THEN SubSeq(s, IF limit < Len(s) THEN Len(s) - limit + 1 ELSE 1, Len(s))
    ELSE SubSeq(s, 1 - limit, Len(s))

\* the emails of the server's folder: one with every header and a plain
\* body, one without Message-ID, Subject, Cc and Date whose HTML part comes
\* before its plain part and its file
RawEmails ==
    {RawEmail(<<<<"<", "m", "1", ">">>>>, <<<<"H", "i">>>>, <<<<"a", "@", "x">>>>,
              <<<<"b", "@", "x">>>>, <<<<"c", "@", "x">>>>, None,
              <<Date("rfc_tz", 3, 0)>>,
              [is_multipart |-> FALSE,
               parts |-> <<EmailPart("text/plain", ContentDispositions.none, None, "utf-8",
                                     <<72, 105>>)>>]),
     RawEmail(None, None, <<<<"a", "@", "x">>>>, <<<<"b", "@", "x">>>>, None, None, None,
              [is_multipart |-> TRUE,
               parts |-> <<EmailPart("text/html", ContentDispositions.none, None, "utf-8",
                                     <<60, 98, 62>>),
                           EmailPart("text/plain", ContentDispositions.none, None, "utf-8",
                                     <<72, 105>>),
                           EmailPart("application/pdf", ContentDispositions.attachment_named,
                                     <<"f.pdf">>, "utf-8", <<0, 171>>)>>])}

\* what happens to one selected email: it is fetched and saved, the server
\* answers the fetch with something other than OK, or _save_message raises
FetchEvents == {"ok", "fetch_failed", "save_failed"}

\* fetcher.fetch_messages(folder, limit) of an IMAPFetcher whose server
\* holds mailbox in the folder; selected is whether the server knows the
\* folder, events[k] what happens to the k-th email of the last limit
IMAPFetchMessages(folder, limit, mailbox, selected, events, now) ==
    LET message_ids == LastN(mailbox, limit)
        fetched == SelectSeq([k \in 1..Len(message_ids) |->
                                 [email_message |-> message_ids[k], event |-> events[k]]],
                             LAMBDA e : e.event # "fetch_failed")
        uuids == FreshUuids(messages, files)
        parsed == [k \in 1..Len(fetched) |->
                      parse_message(fetched[k].email_message, uuids[k], now)]
        failed == [k \in 1..Len(fetched) |-> fetched[k].event = "save_failed"]
        r == AddEach(messages, files, folders, parsed, folder, failed, <<>>)
        returned == IF Tracked(folders, folder)
                    THEN SelectSeq(fetched, LAMBDA e : e.event = "ok") ELSE <<>>
        sources == [k \in 1..Len(returned) |-> returned[k].email_message]
    IN  /\ Len(events) = Len(message_ids)
        /\ TotalMessages(messages) + Len(message_ids) <= MaxFetch
        /\ IF ~selected
           THEN /\ op' = WithArgs(Call("IMAPFetcher.fetch_messages", NoId, folder, "",
                                       <<>>, "RuntimeError"),
                                  [limit |-> limit, mailbox |-> mailbox])
                /\ UNCHANGED <<messages, files>>
           ELSE /\ messages' = r.messages
                /\ files' = r.files
                /\ op' = Returned(WithArgs(Call("IMAPFetcher.fetch_messages", NoId, folder,
                                                "", <<>>, "None"),
                                           [limit |-> limit, mailbox |-> mailbox,
                                            events |-> events, sources |-> sources]),
                                  r.added)
        /\ UNCHANGED <<folders, dirs, gmail, iterator>>

\* the keys import_emails_from_json reads with message_data[key]
ImportKeys == {"from", "to", "subject", "body"}

\* the entry raises while its message is built: an attachment entry that
\* cannot be read, or a missing key
ImportRaises(message_data) ==
    LET attachments == DictGet(message_data, "attachments", <<>>)
    IN  \/ \E i \in 1..Len(attachments) : AttachmentError(attachments[i]) # "None"
        \/ ~(ImportKeys \subseteq DOMAIN message_data)

\* the MessageImpl import_emails_from_json builds from one entry; uuid is
\* what str(uuid.uuid4()) gives, now the local hour
ImportedMessage(message_data, uuid, now) ==
    LET attachments == DictGet(message_data, "attachments", <<>>)
    IN  MessageImpl(DictGet(message_data, "id", uuid), message_data.from, message_data.to,
                    message_data.subject, message_data.body,
                    DictGet(message_data, "date", DefaultDate(now)),
                    DictGet(message_data, "cc", None), DictGet(message_data, "bcc", None),
                    [i \in 1..Len(attachments) |->
                        AttachmentImpl(attachments[i].filename,
                                       attachments[i].content_type,
                                       fromhex(attachments[i].content))],
                    DictGet(message_data, "is_read", FALSE))

\* the entries of the JSON file: a saved message; an entry with the four
\* required keys only; one without "subject"; a read message with
\* addresses in cc and bcc
ImportedData ==
    LET saved == to_dict(MessageImpl(<<"j", "1">>, <<"f">>, <<"t">>, <<"s">>, <<"b">>,
                                     Date("rfc_tz", 1, 0), None, None,
                                     <<AttachmentImpl("f.bin", "application/octet-stream",
                                                      <<0, 171>>)>>, FALSE))
        read == to_dict(MessageImpl(<<"j", "2">>, <<"f">>, <<"t">>, <<"s">>, <<"b">>,
                                    Date("rfc_tz", 2, 0), <<<<"c">>>>, <<<<"d">>>>, <<>>,
                                    TRUE))
    IN  {saved,
         [key \in ImportKeys |-> saved[key]],
         [key \in DOMAIN saved \ {"subject"} |-> saved[key]],
         read}

\* import_emails_from_json(filename, client, folder); file is None when
\* there is no file of that name, else what the file holds; failed[k] is
\* whether _save_message raises for the k-th entry that gives a message
ImportEmailsFromJson(file, folder, failed, now) ==
    IF file = None
    THEN /\ op' = Call("import_emails_from_json", NoId, folder, "", <<>>,
                       "FileNotFoundError")
         /\ failed = <<>>
         /\ UNCHANGED <<folders, messages, dirs, files, gmail, iterator>>
    ELSE IF file[1] = NotJson
    THEN /\ op' = Call("import_emails_from_json", NoId, folder, "", <<>>,
                       "JSONDecodeError")
         /\ failed = <<>>
         /\ UNCHANGED <<folders, messages, dirs, files, gmail, iterator>>
    ELSE LET data == file[1].data
             uuids == FreshUuids(messages, files)
             built == SelectSeq([k \in 1..Len(data) |->
                                    [message_data |-> data[k], uuid |-> uuids[k]]],
                                LAMBDA e : ~ImportRaises(e.message_data))
             list == [k \in 1..Len(built) |->
                         ImportedMessage(built[k].message_data, built[k].uuid, now)]
             r == AddEach(messages, files, folders, list, folder, failed, <<>>)
             returned == IF Tracked(folders, folder)
                         THEN SelectSeq([k \in 1..Len(built) |->
                                            [message_data |-> built[k].message_data,
                                             failed |-> failed[k]]],
                                        LAMBDA e : ~e.failed)
                         ELSE <<>>
         IN  /\ Len(failed) = Len(built)
             /\ TotalMessages(messages) + Len(built) <= MaxFetch
             /\ messages' = r.messages
             /\ files' = r.files
             /\ op' = Returned(WithArgs(Call("import_emails_from_json", NoId, folder, "",
                                             <<>>, "None"),
                                        [data |-> data, failed |-> failed,
                                         sources |-> [k \in 1..Len(returned) |->
                                                         returned[k].message_data]]),
                               r.added)
             /\ UNCHANGED <<folders, dirs, gmail, iterator>>

\* the JSON files: none, one that is not JSON, and the lists of entries
JsonFiles ==
    {None, <<NotJson>>} \cup {<<[data |-> data]>> : data \in Lists(ImportedData, MaxFetch)}

\* the folder names the fetchers are given
FetchFolders == {"INBOX", UserFolder}

\* the local hour datetime.now() reads during a fetch
FetchHour == CHOOSE t \in ClockReadings : \A u \in ClockReadings : t <= u

\* the limits an IMAPFetcher is given
FetchLimits == {0, 1}

NextFetch ==
    \/ CreateFolder(UserFolder)
    \/ \E folder \in FetchFolders, count \in 0..MaxFetch,
          failed \in Lists(BOOLEAN, MaxFetch) :
          MockFetchMessages(folder, count, failed, FetchHour)
    \/ \E folder \in FetchFolders, limit \in FetchLimits,
          mailbox \in Lists(RawEmails, MaxFetch), selected \in BOOLEAN,
          events \in Lists(FetchEvents, MaxFetch) :
          IMAPFetchMessages(folder, limit, mailbox, selected, events, FetchHour)

SpecFetch == Init /\ [][NextFetch]_vars

\* a store that JSON files are imported into
NextImport ==
    \/ CreateFolder(UserFolder)
    \/ \E folder \in FetchFolders, file \in JsonFiles, failed \in Lists(BOOLEAN, MaxFetch) :
          ImportEmailsFromJson(file, folder, failed, FetchHour)

SpecImport == Init /\ [][NextImport]_vars

(***************************************************************************)
(* _parse_message on emails of every kind of header.                       *)
(***************************************************************************)
\* the Message-ID headers: none, an empty one, an id in angle brackets, an
\* id without them, brackets around nothing, and an id in two pairs
MessageIdHeaders ==
    {None, <<<<>>>>, <<<<"<", "m", "1", ">">>>>, <<<<"m", "2">>>>, <<<<"<", ">">>>>,
     <<<<"<", "<", "m", ">", ">">>>>}

\* the emails _parse_message is given; a Cc or Bcc header is absent, empty or an address
ParsedEmails ==
    {RawEmail(message_id, <<<<"H", "i">>>>, <<<<"a", "@", "x">>>>, <<<<"b", "@", "x">>>>,
              cc, bcc, date,
              [is_multipart |-> FALSE,
               parts |-> <<EmailPart("text/plain", ContentDispositions.none, None, "utf-8",
                                     <<72, 105>>)>>]) :
        message_id \in MessageIdHeaders,
        cc \in {None, <<<<>>>>, <<<<"c", "@", "x">>>>},
        bcc \in {None, <<<<>>>>, <<<<"c", "@", "x">>>>},
        date \in {None, <<Date("rfc_tz", 3, 0)>>}}

\* email_message = email.message_from_bytes(raw_email)
InitParse ==
    /\ folders = DefaultFolders
    /\ dirs = Range(DefaultFolders)
    /\ files = <<>>
    /\ messages = [f \in Range(DefaultFolders) |-> <<>>]
    /\ gmail = GmailClient(None, FALSE)
    /\ iterator = NoIterator
    /\ \E email_message \in ParsedEmails :
          op = Call("message_from_bytes", NoId, "", "", <<email_message>>, "None")

\* message = self._parse_message(email_message)
ParseMessage ==
    /\ op.name = "message_from_bytes"
    /\ \E uuid \in Range(Uuids) :
          op' = Returned(WithArgs(Call("_parse_message", NoId, "", "", op.message, "None"),
                                  [uuid |-> uuid]),
                         <<parse_message(op.message[1], uuid, FetchHour)>>)
    /\ UNCHANGED <<folders, messages, dirs, files, gmail, iterator>>

NextParse == ParseMessage

SpecParse == InitParse /\ [][NextParse]_vars

(***************************************************************************)
(* The Gmail client of gmail_client_impl: the service and the credentials  *)
(* of a GmailClient, the token file and the client secrets file its paths  *)
(* name, and the number of requests it has sent to the Gmail API.          *)
(***************************************************************************)
\* an API call is not taken once this many requests have been sent
MaxRequests == 3

\* the server lists at most this many messages or labels for one call
MaxListed == 2

\* google.oauth2 Credentials, by the three properties authenticate reads
Credentials(valid, expired, refresh_token) ==
    [valid |-> valid, expired |-> expired, refresh_token |-> refresh_token]

\* what creds.refresh(Request()) and flow.run_local_server leave in creds
FreshCredentials == Credentials(TRUE, FALSE, TRUE)

\* the token file: absent, or the credentials an earlier run stored
StoredTokens ==
    {None, <<FreshCredentials>>, <<Credentials(FALSE, TRUE, TRUE)>>,
     <<Credentials(FALSE, TRUE, FALSE)>>, <<Credentials(FALSE, FALSE, FALSE)>>}

\* authenticate(): refresh, flow, write and build tell whether
\* creds.refresh, the OAuth flow, the writing of the token file and
\* build("gmail", "v1") complete or raise
authenticate(self, refresh, flow, write, build) ==
    LET raised == [result |-> "AuthenticationError", gmail |-> self]
        loaded == self.token
        usable == loaded # None /\ loaded[1].valid
        refreshable == loaded # None /\ loaded[1].expired /\ loaded[1].refresh_token
        kept == IF refreshable
                THEN IF refresh THEN <<FreshCredentials>> ELSE None
                ELSE loaded
        creds == IF usable THEN loaded
                 ELSE IF kept = None THEN <<FreshCredentials>> ELSE kept
        saved == IF usable THEN self ELSE [self EXCEPT !.token = creds]
    IN  IF ~usable /\ kept = None /\ ~self.secrets THEN raised
        ELSE IF ~usable /\ kept = None /\ ~flow THEN raised
        ELSE IF ~usable /\ ~write THEN raised
        ELSE IF ~build
        THEN [result |-> "AuthenticationError",
              gmail |-> [saved EXCEPT !.credentials = creds]]
        ELSE [result |-> "True",
              gmail |-> [saved EXCEPT !.credentials = creds, !.service = creds]]

Authenticate ==
    \E refresh \in BOOLEAN, flow \in BOOLEAN, write \in BOOLEAN, build \in BOOLEAN :
        LET r == authenticate(gmail, refresh, flow, write, build)
        IN  /\ gmail' = r.gmail
            /\ op' = WithArgs(Call("GmailClient.authenticate", NoId, "", "", <<>>, r.result),
                              [refresh |-> refresh, flow |-> flow, write |-> write,
                               build |-> build])
            /\ UNCHANGED <<folders, messages, dirs, files, iterator>>

\* how .execute() of one request ends
ApiOutcomes == {"ok", "HttpError404", "HttpError", "Exception"}

\* how the get of one listed message ends: a message that parses, one
\* _parse_gmail_message returns None for, or a raised error
GetOutcomes == {"ok", "unparsed", "HttpError"}

\* the ids the list request returns
ListedIds == [i \in 1..MaxListed |-> <<"g", Digits[i]>>]

\* the labels the labels().list request returns: a name, or no name
Labels == {None, <<"INBOX">>, <<"Work">>}

\* if not self.service
NotAuthenticated_Credentials(self) == self.credentials = None
NotAuthenticated(self) == self.service = None

\* raise AuthenticationError("Not authenticated. Call authenticate() first.")
NotAuthenticatedError == [result |-> "AuthenticationError", out |-> <<>>, requests |-> 0]

\* send_email(recipient, subject, body): one messages().send request
send_email(self, outcome) ==
    IF NotAuthenticated(self) THEN NotAuthenticatedError
    ELSE [result |-> IF outcome = "ok" THEN "True" ELSE "EmailClientError",
          out |-> <<>>, requests |-> 1]

\* the messages of the listed ids whose get and parse succeed
RECURSIVE Fetched(_, _)
Fetched(gets, i) ==
    IF i > Len(gets) THEN <<>>
    ELSE (IF gets[i] = "ok" THEN <<ListedIds[i]>> ELSE <<>>) \o Fetched(gets, i + 1)

\* retrieve_emails(folder, limit): one messages().list request and one
\* messages().get request for each listed message
retrieve_emails(self, listing, gets) ==
    IF NotAuthenticated(self) THEN NotAuthenticatedError
    ELSE IF listing # "ok"
    THEN [result |-> "EmailClientError", out |-> <<>>, requests |-> 1]
    ELSE [result |-> "None", out |-> Fetched(gets, 1), requests |-> 1 + Len(gets)]

\* delete_email(email_id): one messages().delete request
delete_email(self, outcome) ==
    IF NotAuthenticated(self) THEN NotAuthenticatedError
    ELSE [result |-> CASE outcome = "ok" -> "True"
                       [] outcome = "HttpError404" -> "False"
                       [] OTHER -> "EmailClientError",
          out |-> <<>>, requests |-> 1]

\* mark_as_read(email_id): one messages().modify request
gmail_mark_as_read(self, outcome) ==
    IF NotAuthenticated(self) THEN NotAuthenticatedError
    ELSE [result |-> CASE outcome = "ok" -> "True"
                       [] outcome = "HttpError404" -> "False"
                       [] OTHER -> "EmailClientError",
          out |-> <<>>, requests |-> 1]

\* list(search_messages(query, folder)): the generator runs when its first
\* item is requested
gmail_search_messages(self, listing, gets) ==
    IF NotAuthenticated(self) THEN NotAuthenticatedError
    ELSE IF listing # "ok"
    THEN [result |-> "EmailClientError", out |-> <<>>, requests |-> 1]
    ELSE [result |-> "None", out |-> Fetched(gets, 1), requests |-> 1 + Len(gets)]

\* get_folders(): one labels().list request; the names of the labels that
\* have one
gmail_get_folders(self, outcome, labels) ==
    IF NotAuthenticated(self) THEN NotAuthenticatedError
    ELSE IF outcome # "ok"
    THEN [result |-> "EmailClientError", out |-> <<>>, requests |-> 1]
    ELSE [result |-> "None",
          out |-> LET named == SelectSeq(labels, LAMBDA label : label # None)
                  IN  [i \in 1..Len(named) |-> named[i][1]],
          requests |-> 1]

SendEmail ==
    \E outcome \in ApiOutcomes :
        LET r == send_email(gmail, outcome)
        IN  /\ gmail.requests + r.requests <= MaxRequests
            /\ gmail' = [gmail EXCEPT !.requests = @ + r.requests]
            /\ op' = Returned(Call("GmailClient.send_email", NoId, "", "", <<>>, r.result), r.out)
            /\ UNCHANGED <<folders, messages, dirs, files, iterator>>

RetrieveEmails ==
    \E listing \in ApiOutcomes, gets \in Lists(GetOutcomes, MaxListed) :
        LET r == retrieve_emails(gmail, listing, gets)
        IN  /\ gmail.requests + r.requests <= MaxRequests
            /\ gmail' = [gmail EXCEPT !.requests = @ + r.requests]
            /\ op' = Returned(Call("GmailClient.retrieve_emails", NoId, "", "", <<>>, r.result), r.out)
            /\ UNCHANGED <<folders, messages, dirs, files, iterator>>

DeleteEmail ==
    \E outcome \in ApiOutcomes :
        LET r == delete_email(gmail, outcome)
        IN  /\ gmail.requests + r.requests <= MaxRequests
            /\ gmail' = [gmail EXCEPT !.requests = @ + r.requests]
            /\ op' = Returned(Call("GmailClient.delete_email", NoId, "", "", <<>>, r.result), r.out)
            /\ UNCHANGED <<folders, messages, dirs, files, iterator>>

GmailMarkAsRead ==
    \E outcome \in ApiOutcomes :
        LET r == gmail_mark_as_read(gmail, outcome)
        IN  /\ gmail.requests + r.requests <= MaxRequests
            /\ gmail' = [gmail EXCEPT !.requests = @ + r.requests]
            /\ op' = Returned(Call("GmailClient.mark_as_read", NoId, "", "", <<>>, r.result), r.out)
            /\ UNCHANGED <<folders, messages, dirs, files, iterator>>

GmailSearchMessages ==
    \E listing \in ApiOutcomes, gets \in Lists(GetOutcomes, MaxListed) :
        LET r == gmail_search_messages(gmail, listing, gets)
        IN  /\ gmail.requests + r.requests <= MaxRequests
            /\ gmail' = [gmail EXCEPT !.requests = @ + r.requests]
            /\ op' = Returned(Call("GmailClient.search_messages", NoId, "", "", <<>>, r.result), r.out)
            /\ UNCHANGED <<folders, messages, dirs, files, iterator>>

GmailGetFolders ==
    \E outcome \in ApiOutcomes, labels \in Lists(Labels, MaxListed) :
        LET r == gmail_get_folders(gmail, outcome, labels)
        IN  /\ gmail.requests + r.requests <= MaxRequests
            /\ gmail' = [gmail EXCEPT !.requests = @ + r.requests]
            /\ op' = Returned(Call("GmailClient.get_folders", NoId, "", "", <<>>, r.result), r.out)
            /\ UNCHANGED <<folders, messages, dirs, files, iterator>>

\* a GmailClient has been constructed beside some token file and with or
\* without a client secrets file
InitGmail ==
    /\ folders = DefaultFolders
    /\ dirs = Range(DefaultFolders)
    /\ files = <<>>
    /\ messages = [f \in Range(DefaultFolders) |-> <<>>]
    /\ op = Call("GmailClient.__init__", NoId, "", "", <<>>, "None")
    /\ \E token \in StoredTokens, secrets \in BOOLEAN :
          gmail = GmailClient(token, secrets)
    /\ iterator = NoIterator

NextGmail ==
    \/ Authenticate
    \/ SendEmail
    \/ RetrieveEmails
    \/ DeleteEmail
    \/ GmailMarkAsRead
    \/ GmailSearchMessages
    \/ GmailGetFolders

SpecGmail == InitGmail /\ [][NextGmail]_vars

(***************************************************************************)
(* The generators get_messages and search_messages return, advanced one    *)
(* item at a time while the caller changes the store between the items.    *)
(* A generator holds the call's arguments and, once it has run, its local  *)
(* variables; called_on and began_on record the folder's list when the     *)
(* call was made and when the first item was requested.                    *)
(***************************************************************************)
\* client.get_messages(limit, folder) or client.search_messages(query, folder):
\* no line of the body has run
Generator(kind, folder, limit, query, list) ==
    [kind |-> kind, folder |-> folder, limit |-> limit, query |-> query,
     state |-> "created", sorted_messages |-> <<>>, position |-> 0,
     yielded |-> <<>>, called_on |-> list, began_on |-> <<>>]

\* sorted_messages read from the folder at every request
SortedMessages_Live(it, msgs, tracked, clock) ==
    get_messages(msgs, tracked, it.limit, it.folder, clock).out

\* the local variable sorted_messages of get_messages: bound once, by the
\* lines the first request runs
SortedMessages(it, msgs, tracked, clock) ==
    IF it.state = "created"
    THEN get_messages(msgs, tracked, it.limit, it.folder, clock).out
    ELSE it.sorted_messages

\* next() on the generator of get_messages: the first request runs the
\* folder check and the sort, every request the next pass of
\* "for message in sorted_messages: yield message"
next_get_messages(it, msgs, tracked, clock) ==
    LET r == get_messages(msgs, tracked, it.limit, it.folder, clock)
        sorted_messages == SortedMessages(it, msgs, tracked, clock)
        began == IF it.state = "created"
                 THEN [it EXCEPT !.began_on = MessagesGet(msgs, it.folder)] ELSE it
    IN  IF it.state = "created" /\ r.result # "None"
        THEN [it EXCEPT !.state = r.result]
        ELSE IF it.position < Len(sorted_messages)
        THEN [began EXCEPT !.state = "running",
                           !.sorted_messages = sorted_messages,
                           !.position = @ + 1,
                           !.yielded = Append(@, sorted_messages[it.position + 1])]
        ELSE [began EXCEPT !.state = "done", !.sorted_messages = sorted_messages]

\* next() on the generator of search_messages: the first request runs the
\* folder check, every request the loop over self._messages.get(folder, [])
\* up to its next match.  The loop walks the folder's own list, which
\* add_message, move_message and delete_message change in place; position is
\* the number of entries the list iterator has passed
next_search_messages(it, msgs, tracked) ==
    LET list == MessagesGet(msgs, it.folder)
        hits == {i \in (it.position + 1)..Len(list) :
                    QueryMatches(lower(it.query), list[i])}
        began == IF it.state = "created" THEN [it EXCEPT !.began_on = list] ELSE it
    IN  IF it.state = "created" /\ ~Tracked(tracked, it.folder)
        THEN [it EXCEPT !.state = "UnknownFolder"]
        ELSE IF hits = {}
        THEN [began EXCEPT !.state = "done"]
        ELSE LET i == CHOOSE h \in hits : \A k \in hits : h <= k
             IN  [began EXCEPT !.state = "running",
                               !.position = i,
                               !.yielded = Append(@, list[i])]

\* next(iterator): what the generator is after the request
Advance(it, msgs, tracked, clock) ==
    IF it.kind = "get_messages"
    THEN next_get_messages(it, msgs, tracked, clock)
    ELSE next_search_messages(it, msgs, tracked)

\* the outcome of next(iterator): the item yielded, StopIteration, or the
\* error the body raised
NextResult(before, after) ==
    [result |-> CASE after.state = "running" -> "None"
                  [] after.state = "done" -> "StopIteration"
                  [] OTHER -> after.state,
     out |-> IF after.state = "running"
             THEN <<after.yielded[Len(after.yielded)]>> ELSE <<>>]

\* iterator = client.get_messages(limit, folder)
GetMessagesCall(limit, folder) ==
    /\ iterator' = Generator("get_messages", folder, limit, <<>>,
                             MessagesGet(messages, folder))
    /\ op' = WithArgs(Call("get_messages()", NoId, folder, "", <<>>, "None"),
                      [limit |-> limit])
    /\ UNCHANGED <<folders, messages, dirs, files, gmail>>

\* iterator = client.search_messages(query, folder)
SearchMessagesCall(query, folder) ==
    /\ iterator' = Generator("search_messages", folder, None, query,
                             MessagesGet(messages, folder))
    /\ op' = WithArgs(Call("search_messages()", NoId, folder, "", <<>>, "None"),
                      [query |-> query])
    /\ UNCHANGED <<folders, messages, dirs, files, gmail>>

\* next(iterator) on a generator that has not finished
NextItem ==
    /\ iterator.kind # "none"
    /\ iterator.state \in {"created", "running"}
    /\ \E clock \in SteadyClocks :
          /\ Len(clock) = Len(MessagesGet(messages, iterator.folder))
          /\ iterator' = Advance(iterator, messages, folders, clock)
    /\ op' = Returned(Call("next", NoId, iterator.folder, "", <<>>,
                           NextResult(iterator, iterator').result),
                      NextResult(iterator, iterator').out)
    /\ UNCHANGED <<folders, messages, dirs, files, gmail>>

\* a store whose INBOX is listed item by item between add_message,
\* move_message and delete_message calls on that folder
NextIter ==
    \/ \E limit \in {None, <<1>>} : GetMessagesCall(limit, "INBOX")
    \/ NextItem
    \/ \E message \in MessagePool : AddMessage(message, "INBOX", FALSE)
    \/ \E message_id \in Ids : MoveMessage(message_id, "INBOX", "Archive")
    \/ \E message_id \in Ids : DeleteMessage(message_id, "INBOX")

SpecIter == Init /\ [][NextIter]_vars

\* the loop "for message in client.search_messages(query, folder):" asking
\* for its next message, the message of the pass before having been removed
ViewNext ==
    /\ iterator.kind = "search_messages"
    /\ iterator.state \in {"created", "running"}
    /\ ~(op.name = "next" /\ op.result = "None")
    /\ iterator' = Advance(iterator, messages, folders, <<>>)
    /\ op' = Returned(Call("next", NoId, iterator.folder, "", <<>>,
                           NextResult(iterator, iterator').result),
                      NextResult(iterator, iterator').out)
    /\ UNCHANGED <<folders, messages, dirs, files, gmail>>

\* the body of that loop: client.delete_message(message.id, folder) or
\* client.move_message(message.id, folder, "Archive") on the message the
\* loop holds
RemoveViewed(remove) ==
    /\ op.name = "next"
    /\ op.result = "None"
    /\ LET message == op.out[1]
           r == IF remove = "delete_message"
                THEN delete_message(messages, files, folders, message.id, iterator.folder)
                ELSE move_message(messages, files, folders, message.id, iterator.folder,
                                  "Archive")
       IN  /\ messages' = r.messages
           /\ files' = r.files
           /\ op' = Call(remove, message.id, iterator.folder,
                         IF remove = "delete_message" THEN "" ELSE "Archive",
                         <<>>, r.result)
    /\ UNCHANGED <<folders, dirs, gmail, iterator>>

\* a store with a list of messages in INBOX, searched by a caller that
\* removes every message it is given before it asks for the next
NextView ==
    \/ \E query \in ReadQueries : SearchMessagesCall(query, "INBOX")
    \/ ViewNext
    \/ \E remove \in {"delete_message", "move_message"} : RemoveViewed(remove)

SpecView == InitRead /\ [][NextView]_vars

(***************************************************************************)
(* The read flag of the messages a store holds: a caller marks a message   *)
(* of a folder's list, the object the list holds.  Every entry of a list   *)
(* is an object of its own: the callers add no object twice.               *)
(***************************************************************************)
\* mark_as_read that flips the flag
mark_as_read_Toggle(message) == [message EXCEPT !.is_read = ~@]

\* MessageImpl.mark_as_read: self._is_read = True
mark_as_read(message) == [message EXCEPT !.is_read = TRUE]

\* MessageImpl.mark_as_unread: self._is_read = False
mark_as_unread(message) == [message EXCEPT !.is_read = FALSE]

\* message.mark_as_read() on the i-th message of a folder
MarkAsRead(folder, i) ==
    /\ i \in 1..Len(messages[folder])
    /\ messages' = [messages EXCEPT ![folder][i] = mark_as_read(@)]
    /\ op' = WithArgs(Call("mark_as_read", messages[folder][i].id, folder, "", <<>>, "None"),
                      [position |-> i])
    /\ UNCHANGED <<folders, dirs, files, gmail, iterator>>

\* message.mark_as_unread() on the i-th message of a folder
MarkAsUnread(folder, i) ==
    /\ i \in 1..Len(messages[folder])
    /\ messages' = [messages EXCEPT ![folder][i] = mark_as_unread(@)]
    /\ op' = WithArgs(Call("mark_as_unread", messages[folder][i].id, folder, "", <<>>, "None"),
                      [position |-> i])
    /\ UNCHANGED <<folders, dirs, files, gmail, iterator>>

\* a store whose messages are added, marked and moved
NextMark ==
    \/ \E message \in MessagePool : AddMessage(message, "INBOX", FALSE)
    \/ \E folder \in {"INBOX", "Archive"}, i \in 1..MaxMsgs : MarkAsRead(folder, i)
    \/ \E folder \in {"INBOX", "Archive"}, i \in 1..MaxMsgs : MarkAsUnread(folder, i)
    \/ \E message_id \in Ids : MoveMessage(message_id, "INBOX", "Archive")

SpecMark == Init /\ [][NextMark]_vars

(***************************************************************************)
(* Properties.  A step is recognised by the call record it leaves in op';  *)
(* the unprimed variables are the store before the call, the primed ones   *)
(* the store after it.                                                     *)
(***************************************************************************)
StoreUnchanged == UNCHANGED <<folders, messages, dirs, files>>

\* the message a call with this id finds in the folder before the call
Found(folder, message_id) ==
    messages[folder][FindMessage(messages[folder], message_id)]

HasId(s, message_id) == \E i \in 1..Len(s) : s[i].id = message_id

Holds(s, message) == \E i \in 1..Len(s) : s[i] = message

\* C1: a call of get_messages, search_messages, add_message, delete_message
\* or move_message that names a folder outside the tracked list (for a move:
\* as source or as target) fails with the unknown-folder error and leaves the
\* folder list, every collection, every directory and every file as before.
C1_UnknownFolderMutatesNothing ==
    [][(/\ op'.name \in {"get_messages", "search_messages", "add_message",
                         "delete_message", "move_message"}
        /\ \/ ~Tracked(folders, op'.source)
           \/ op'.name = "move_message" /\ ~Tracked(folders, op'.target))
       => (op'.result = "UnknownFolder" /\ StoreUnchanged)]_vars

\* a move into an untracked target was refused on a store that holds messages
C1_Witness ==
    /\ op.name = "move_message"
    /\ op.result = "UnknownFolder"
    /\ Tracked(folders, op.source)
    /\ ~Tracked(folders, op.target)
    /\ HasId(messages[op.source], op.id)
    /\ Exists(files, Path(op.source, op.id))

\* C2: delete_message(id, F) with F tracked, F other than Trash and a message
\* with the id in F returns True; afterwards that message is not in F, the
\* same message is in Trash, and no message has left the store.
C2_SoftDelete ==
    [][(/\ op'.name = "delete_message"
        /\ Tracked(folders, op'.source)
        /\ op'.source # Trash
        /\ HasId(messages[op'.source], op'.id))
       => (/\ op'.result = "True"
           /\ ~Holds(messages'[op'.source], Found(op'.source, op'.id))
           /\ Holds(messages'[Trash], Found(op'.source, op'.id))
           /\ TotalMessages(messages') = TotalMessages(messages)
           /\ Exists(files', Path(Trash, op'.id)))]_vars

\* C3: delete_message(id, "Trash") with a message of the id in Trash returns
\* True, removes the message from Trash's collection and the file
\* Trash/id.json, places it in no other folder, and afterwards no folder
\* lists the id.
C3_HardDelete ==
    [][(/\ op'.name = "delete_message"
        /\ op'.source = Trash
        /\ HasId(messages[Trash], op'.id))
       => (/\ op'.result = "True"
           /\ messages'[Trash] = Pop(messages[Trash], FindMessage(messages[Trash], op'.id))
           /\ ~Exists(files', Path(Trash, op'.id))
           /\ \A f \in DOMAIN messages \ {Trash} : messages'[f] = messages[f]
           /\ \A f \in DOMAIN messages' : ~HasId(messages'[f], op'.id))]_vars

\* C4: over the store operations (every call but construction), the number
\* of messages in memory, summed over the folders, decreases only in a
\* delete_message call on Trash.
C4_OnlyTrashDeleteLoses ==
    [][(op'.name # "__init__" /\ TotalMessages(messages') < TotalMessages(messages))
       => (op'.name = "delete_message" /\ op'.source = Trash)]_vars

\* a delete on Trash removed a message while another folder kept its own
C4_Witness ==
    /\ op.name = "delete_message"
    /\ op.source = Trash
    /\ op.result = "True"
    /\ \E f \in DOMAIN messages \ {Trash} : Len(messages[f]) > 0

\* C5: no folder's collection holds two messages with the same id.
C5_UniqueIdPerFolder ==
    \A f \in DOMAIN messages :
        \A i, j \in 1..Len(messages[f]) :
            messages[f][i].id = messages[f][j].id => i = j

\* C6: move_message(id, S, T) with S and T tracked, S other than T and a
\* message with the id in S returns True; that message is the last entry of
\* T, S holds one message fewer, the total over all folders is unchanged and
\* every other folder's collection is unchanged.
C6_MoveTransfers ==
    [][(/\ op'.name = "move_message"
        /\ Tracked(folders, op'.source)
        /\ Tracked(folders, op'.target)
        /\ op'.source # op'.target
        /\ HasId(messages[op'.source], op'.id))
       => (/\ op'.result = "True"
           /\ messages'[op'.target]
                = Append(messages[op'.target], Found(op'.source, op'.id))
           /\ Len(messages'[op'.source]) = Len(messages[op'.source]) - 1
           /\ TotalMessages(messages') = TotalMessages(messages)
           /\ DOMAIN messages' = DOMAIN messages
           /\ \A f \in DOMAIN messages \ {op'.source, op'.target} :
                 messages'[f] = messages[f])]_vars

\* a move between two folders succeeded while a third folder holds a message
C6_Witness ==
    /\ op.name = "move_message"
    /\ op.result = "True"
    /\ op.source # op.target
    /\ Len(messages[op.target]) > 0
    /\ \E f \in DOMAIN messages \ {op.source, op.target} : Len(messages[f]) > 0

\* C7: move_message and delete_message on tracked folders with no message of
\* the id in the source folder return False and leave every collection and
\* every file as before.
C7_NotFoundIsAResult ==
    [][(\/ /\ op'.name = "move_message"
           /\ Tracked(folders, op'.source)
           /\ Tracked(folders, op'.target)
           /\ ~HasId(messages[op'.source], op'.id)
        \/ /\ op'.name = "delete_message"
           /\ Tracked(folders, op'.source)
           /\ ~HasId(messages[op'.source], op'.id))
       => (op'.result = "False" /\ StoreUnchanged)]_vars

\* a delete found nothing in its folder while Trash holds a message of that id
C7_Witness ==
    /\ op.name = "delete_message"
    /\ op.result = "False"
    /\ op.source # Trash
    /\ HasId(messages[Trash], op.id)
    /\ Exists(files, Path(Trash, op.id))

\* C8: add_message(m, F) with F tracked, when it returns, has appended m as
\* the last entry of F and left the file F/m.id.json holding m's fields, in
\* place of any earlier file of that name; every other collection and every
\* other file is unchanged.
C8_AddAppendsAndSaves ==
    [][(/\ op'.name = "add_message"
        /\ Tracked(folders, op'.source)
        /\ op'.result = "None")
       => (/\ messages'[op'.source] = Append(messages[op'.source], op'.message[1])
           /\ DOMAIN messages' = DOMAIN messages
           /\ \A f \in DOMAIN messages \ {op'.source} : messages'[f] = messages[f]
           /\ DOMAIN files' = DOMAIN files \cup {Path(op'.source, op'.id)}
           /\ files'[Path(op'.source, op'.id)].id = op'.message[1].id
           /\ from_dict(files'[Path(op'.source, op'.id)]) = op'.message[1]
           /\ \A q \in DOMAIN files \ {Path(op'.source, op'.id)} : files'[q] = files[q]
           /\ UNCHANGED <<folders, dirs>>)]_vars

\* an add replaced the file of an earlier message with the same id and other fields
C8_Witness ==
    /\ op.name = "add_message"
    /\ op.result = "None"
    /\ Len(messages[op.source]) > 1
    /\ messages[op.source][1].id = op.id
    /\ messages[op.source][1] # op.message[1]
    /\ from_dict(files[Path(op.source, op.id)]) = op.message[1]

\* C9: every name in the tracked folder list has a directory under data_dir
\* and an entry in the folder-to-messages mapping, after construction and
\* after every create_folder call, successful or failed.
C9_TrackedFoldersExist ==
    \A i \in 1..Len(folders) : folders[i] \in dirs /\ folders[i] \in DOMAIN messages

\* create_folder registered a folder beyond the five defaults
C9_Witness ==
    /\ op.name = "create_folder"
    /\ op.result = "None"
    /\ Len(folders) > Len(DefaultFolders)

\* C10: create_folder(name) with name tracked fails with the folder-exists
\* error and changes nothing; with name untracked and its directory
\* creatable, name is tracked exactly once afterwards with an empty
\* collection, every folder tracked before is still tracked and no folder's
\* messages change.
C10_CreateFolder ==
    [][(op'.name = "create_folder")
       => (/\ Tracked(folders, op'.source)
              => (op'.result = "FolderExists" /\ StoreUnchanged)
           /\ (~Tracked(folders, op'.source) /\ op'.source \notin dirs)
              => (/\ op'.result = "None"
                  /\ Cardinality({i \in 1..Len(folders') : folders'[i] = op'.source}) = 1
                  /\ messages'[op'.source] = <<>>
                  /\ \A i \in 1..Len(folders) : Tracked(folders', folders[i])
                  /\ \A f \in DOMAIN messages : messages'[f] = messages[f]
                  /\ UNCHANGED files))]_vars

\* a folder was created on a store whose other folders hold messages
C10_Witness ==
    /\ op.name = "create_folder"
    /\ op.result = "None"
    /\ Tracked(folders, op.source)
    /\ messages[op.source] = <<>>
    /\ TotalMessages(messages) > 0

\* a create_folder call on a tracked name was refused
C10_WitnessExists ==
    /\ op.name = "create_folder"
    /\ op.result = "FolderExists"
    /\ TotalMessages(messages) > 0

(***************************************************************************)
(* Serialization and loading.                                              *)
(***************************************************************************)
\* C16: from_dict(to_dict(m)) is a message equal to m field for field: id,
\* sender, recipient, cc and bcc (given or None), date, subject, body, read
\* flag, and the attachments with their names, types and bytes.
C16_RoundTrip ==
    op.name = "from_dict" =>
        /\ op.result = "None"
        /\ op.out = op.message

\* a message with cc, without bcc, read, and two attachments with different
\* bytes has gone through to_dict and from_dict
C16_Witness ==
    /\ op.name = "from_dict"
    /\ op.message[1].cc # None /\ op.message[1].bcc = None
    /\ op.message[1].is_read
    /\ Len(op.message[1].attachments) = 2
    /\ op.message[1].attachments[1].content = <<0, 171>>
    /\ op.message[1].attachments[2].content = <<255, 16>>

\* C17: a new store on the data_dir of an earlier one tracks every folder
\* the earlier one tracked, and holds for each of them exactly the messages
\* of the files in its directory; no message file is out of reach.
C17_ReloadKeepsEveryFolder ==
    [][op'.name = "__init__" =>
          /\ \A f \in Range(folders) :
                /\ Tracked(folders', f)
                /\ f \in DOMAIN messages'
                /\ Len(messages'[f]) = Cardinality(MessageFiles(files', f))
                /\ Range(messages'[f])
                      = {from_dict(files'[p]) : p \in MessageFiles(files', f)}
          /\ \A p \in DOMAIN files' : Tracked(folders', p[1])]_vars

\* C18: a file that gives no message (text that is not JSON, a missing
\* required key, an attachment payload that is not hex) is skipped at
\* construction: the constructor returns, and every folder holds exactly the
\* messages of its well-formed files.
C18_MalformedFilesSkipped ==
    op.name = "__init__" =>
        /\ op.result = "None"
        /\ \A f \in Range(DefaultFolders) :
              /\ f \in DOMAIN messages
              /\ Range(messages[f])
                    = {from_dict(files[p]) :
                          p \in {q \in MessageFiles(files, f) : LoadError(files[q]) = "None"}}

(***************************************************************************)
(* Parsing a fetched email.                                                *)
(***************************************************************************)
\* the disposition type of a Content-Disposition header: the text before the
\* first ";", in lower case
DispositionType(header) ==
    LET stops == {k \in 1..Len(header) : header[k] = ";"}
        end == IF stops = {} THEN Len(header)
               ELSE (CHOOSE k \in stops : \A j \in stops : k <= j) - 1
    IN  lower(SubSeq(header, 1, end))

\* the disposition of the part marks it as an attachment
MarkedAttachment(part) == DispositionType(part.disposition) = AttachmentWord

\* the parts of an email that are body text of the given type: not sent as
\* a file
BodyParts(email_message, content_type) ==
    {i \in 1..Len(email_message.parts) :
        /\ email_message.parts[i].content_type = content_type
        /\ ~MarkedAttachment(email_message.parts[i])}

\* C19: for a multipart email with a text/plain part and a text/html part,
\* neither sent as an attachment, in either order, the body comes from the
\* plain part only: neither the HTML marker nor the HTML part's content
\* occurs in it.
C19_PlainTextPreferred ==
    (/\ op.name = "_extract_content"
     /\ op.message[1].is_multipart
     /\ BodyParts(op.message[1], "text/plain") # {}
     /\ BodyParts(op.message[1], "text/html") # {}) =>
        /\ ~In(HtmlMarker, op.out[1].body)
        /\ \A i \in BodyParts(op.message[1], "text/html") :
              ~In(Decode(op.message[1].parts[i].payload), op.out[1].body)

\* the parts the rule classifies as attachments: marked as an attachment
\* by the disposition, or of a content type other than text/plain and
\* text/html
ClassifiedAttachments(parts) ==
    SelectSeq(parts, LAMBDA part : \/ MarkedAttachment(part)
                                   \/ part.content_type \notin {"text/plain", "text/html"})

\* the other parts
ClassifiedText(parts) ==
    SelectSeq(parts, LAMBDA part : ~(\/ MarkedAttachment(part)
                                     \/ part.content_type \notin {"text/plain", "text/html"}))

\* C25: for a multipart email the attachments are the parts whose
\* disposition marks them as attachments or whose content type is neither
\* text/plain nor text/html, one attachment for each such part and in walk
\* order, and the body is the body of the email without those parts: an
\* attachment part adds no text to it.
C25_PartsClassifiedOnce ==
    (op.name = "_extract_content" /\ op.message[1].is_multipart) =>
        LET parts == op.message[1].parts
            classified == ClassifiedAttachments(parts)
            attachments == op.out[1].attachments
        IN  /\ Len(attachments) = Len(classified)
            /\ \A k \in 1..Len(attachments) :
                  /\ k <= Len(classified)
                  /\ attachments[k].content_type = classified[k].content_type
                  /\ attachments[k].content = classified[k].payload
            /\ op.out[1].body = WalkParts(ClassifiedText(parts), <<>>, <<>>).body

\* text, without the "<" and ">" characters at its two ends
Unbracketed(text) ==
    CHOOSE inner \in {SubSeq(text, a, b) : a \in 1..(Len(text) + 1), b \in 0..Len(text)} :
        /\ \E a \in 1..(Len(text) + 1), b \in 0..Len(text) :
              /\ inner = SubSeq(text, a, b)
              /\ \A k \in (1..(a - 1)) \cup ((b + 1)..Len(text)) : text[k] \in {"<", ">"}
        /\ inner # <<>> => (inner[1] \notin {"<", ">"} /\ inner[Len(inner)] \notin {"<", ">"})

\* C26: the id of a message parsed from an email is its Message-ID header
\* without the angle brackets around it, or the freshly generated
\* identifier when the header is absent or empty; it is never the empty
\* string.
C26_IdFromMessageId ==
    (op.name = "_parse_message") =>
        LET header == op.message[1].message_id
            id == op.out[1].id
        IN  /\ (header # None /\ header[1] # <<>>) => id = Unbracketed(header[1])
            /\ (header = None \/ header[1] = <<>>) => id = op.args.uuid
            /\ id # <<>>

\* the inputs of the messages an ingestion call returned, in their order,
\* by what each supplies: a Cc, a Bcc, a read flag
Supplied(call) ==
    CASE call.name = "IMAPFetcher.fetch_messages" ->
           [k \in 1..Len(call.args.sources) |->
               [cc |-> call.args.sources[k].cc # None,
                bcc |-> call.args.sources[k].bcc # None,
                is_read |-> FALSE]]
      [] call.name = "MockFetcher.fetch_messages" ->
           [k \in 1..call.args.count |->
               [cc |-> (k - 1) % 2 = 0, bcc |-> (k - 1) % 3 = 0, is_read |-> FALSE]]
      [] call.name = "import_emails_from_json" ->
           [k \in 1..Len(call.args.sources) |->
               [cc |-> "cc" \in DOMAIN call.args.sources[k]
                         /\ call.args.sources[k].cc # None,
                bcc |-> "bcc" \in DOMAIN call.args.sources[k]
                          /\ call.args.sources[k].bcc # None,
                is_read |-> "is_read" \in DOMAIN call.args.sources[k]]]

\* the empty string, as the value of an optional field
EmptyString == <<<<>>>>

\* C27: a message the IMAP parser, the mock generator or the JSON importer
\* returns has the empty string as its cc when its input supplies no Cc,
\* the empty string as its bcc when its input supplies no Bcc, and is
\* unread when its input supplies no read flag.
C27_IngestionDefaults ==
    (op.name \in {"IMAPFetcher.fetch_messages", "MockFetcher.fetch_messages",
                  "import_emails_from_json"}
     /\ op.result = "None") =>
        /\ Len(Supplied(op)) = Len(op.out)
        /\ \A k \in 1..Len(op.out) :
              /\ ~Supplied(op)[k].cc => op.out[k].cc = EmptyString
              /\ ~Supplied(op)[k].bcc => op.out[k].bcc = EmptyString
              /\ ~Supplied(op)[k].is_read => ~op.out[k].is_read

\* C20: every message in the list fetch_messages returns, for a MockFetcher
\* and for an IMAPFetcher with a client set and any folder name, is in the
\* store's collection of that folder and has a file there; a message whose
\* add_message raised is not in the list.
C20_FetchedMeansStored ==
    (op.name \in {"MockFetcher.fetch_messages", "IMAPFetcher.fetch_messages"}
     /\ op.result = "None") =>
        \A k \in 1..Len(op.out) :
            /\ op.source \in DOMAIN messages
            /\ op.out[k] \in Range(messages[op.source])
            /\ Exists(files, Path(op.source, op.out[k].id))

(***************************************************************************)
(* Listing and searching.                                                  *)
(***************************************************************************)
\* the date string matches one of the formats safe_date_key tries
Parseable(date) == \E k \in 1..Len(DateFormats) : Strptime(date, DateFormats[k])

\* the hour, in UTC, a parseable date names
Instant(date) == safe_date_key([date |-> date], 0).t

\* s holds the elements of t, each as often as t does
IsPermutation(s, t) ==
    /\ Len(s) = Len(t)
    /\ \E f \in [1..Len(s) -> 1..Len(s)] :
          /\ \A i, j \in 1..Len(s) : f[i] = f[j] => i = j
          /\ \A i \in 1..Len(s) : s[i] = t[f[i]]

\* s is t without some of its elements, the others in their order
IsSubsequence(s, t) ==
    \E pos \in [1..Len(s) -> 1..Len(t)] :
        /\ \A i, j \in 1..Len(s) : i < j => pos[i] < pos[j]
        /\ \A i \in 1..Len(s) : s[i] = t[pos[i]]

\* q occurs in text, letter case ignored
ContainsIgnoringCase(text, q) ==
    \E k \in 0..(Len(text) - Len(q)) :
        \A i \in 1..Len(q) : lower(<<text[k + i]>>) = lower(<<q[i]>>)

\* q and text are the same string, letter case ignored
EqualIgnoringCase(text, q) ==
    /\ Len(text) = Len(q)
    /\ ContainsIgnoringCase(text, q)

\* C11: get_messages yields the messages of the folder newest first: of any
\* two yielded messages with parseable dates, the one yielded first names
\* the later (or the same) instant, whatever the order they were stored in.
C11_NewestFirst ==
    (op.name = "get_messages" /\ op.result = "None") =>
        \A i, j \in 1..Len(op.out) :
            (i < j /\ Parseable(op.out[i].date) /\ Parseable(op.out[j].date))
                => Instant(op.out[i].date) >= Instant(op.out[j].date)

\* two messages that name the same wall-clock hour at different offsets,
\* stored older first, are yielded newer first
C11_Witness ==
    /\ op.name = "get_messages"
    /\ Len(op.out) = 2
    /\ op.out[1].date.fmt = "rfc_tz" /\ op.out[2].date.fmt = "rfc_tz"
    /\ op.out[1].date.wall = op.out[2].date.wall
    /\ Instant(op.out[1].date) > Instant(op.out[2].date)
    /\ messages[op.source] = <<op.out[2], op.out[1]>>

\* C12: without a limit get_messages yields every message of the folder
\* exactly once (a permutation of the collection); with limit n >= 0 it
\* yields exactly the first min(n, size) entries of that date-sorted sequence.
C12_LimitIsPrefix ==
    (op.name = "get_messages" /\ op.result = "None") =>
        LET list == messages[op.source]
            full == get_messages(messages, folders, None, op.source, op.args.clock).out
        IN  /\ op.args.limit = None => IsPermutation(op.out, list)
            /\ (op.args.limit # None /\ op.args.limit[1] >= 0) =>
                  /\ Len(op.out) = IF op.args.limit[1] < Len(list)
                                   THEN op.args.limit[1] ELSE Len(list)
                  /\ \A i \in 1..Len(op.out) : op.out[i] = full[i]

\* a limit of 1 on a folder of two yields the newer one, which was stored last
C12_Witness ==
    /\ op.name = "get_messages"
    /\ op.args.limit = <<1>>
    /\ Len(messages[op.source]) = 2
    /\ op.out = <<messages[op.source][2]>>
    /\ messages[op.source][1] # messages[op.source][2]

\* C13: get_messages does not raise for a date that matches no format, and
\* yields every message with such a date before every message of the folder
\* whose date is parseable.
C13_MalformedDatesFirst ==
    op.name = "get_messages" =>
        /\ op.result = "None"
        /\ \A i, j \in 1..Len(op.out) :
              (~Parseable(op.out[i].date) /\ Parseable(op.out[j].date)) => i < j

\* C14: search_messages yields a message of the folder exactly when the
\* query occurs, letter case ignored, in its subject, body, sender or
\* recipient, or equals its id; an id that only contains the query does not
\* make a match.
C14_SearchExactness ==
    (op.name = "search_messages" /\ op.result = "None") =>
        \A m \in Range(messages[op.source]) :
            m \in Range(op.out) <=>
                \/ ContainsIgnoringCase(m.subject, op.args.query)
                \/ ContainsIgnoringCase(m.body, op.args.query)
                \/ ContainsIgnoringCase(m.from_, op.args.query)
                \/ ContainsIgnoringCase(m.to, op.args.query)
                \/ EqualIgnoringCase(m.id, op.args.query)

\* the query is the id of one message, which is yielded, and a proper part
\* of the id of another, which is not
C14_Witness ==
    /\ op.name = "search_messages"
    /\ \E m \in Range(op.out) : m.id = op.args.query
    /\ \E m \in Range(messages[op.source]) :
          /\ In(op.args.query, m.id)
          /\ m.id # op.args.query
          /\ m \notin Range(op.out)

\* C15: search_messages yields its matches in the order the folder stores
\* them, whatever their dates.
C15_SearchInStorageOrder ==
    (op.name = "search_messages" /\ op.result = "None") =>
        IsSubsequence(op.out, messages[op.source])

\* two matches are yielded older first, where get_messages yields newer first
C15_Witness ==
    /\ op.name = "search_messages"
    /\ Len(op.out) = 2
    /\ Parseable(op.out[1].date) /\ Parseable(op.out[2].date)
    /\ Instant(op.out[1].date) < Instant(op.out[2].date)
    /\ get_messages(messages, folders, None, op.source, <<0, 0>>).out
          = <<op.out[2], op.out[1]>>

(***************************************************************************)
(* The Gmail client.                                                       *)
(***************************************************************************)
\* the calls of a GmailClient that send requests to the Gmail API
GmailApiCalls ==
    {"GmailClient.send_email", "GmailClient.retrieve_emails", "GmailClient.delete_email",
     "GmailClient.mark_as_read", "GmailClient.search_messages", "GmailClient.get_folders"}

\* C21: the service of a GmailClient is unset until an authenticate call
\* returns True, is set by every authenticate call that returns True and
\* is never unset again; while it is unset each of send_email,
\* retrieve_emails, delete_email, mark_as_read, search_messages and
\* get_folders fails with AuthenticationError and sends no request to the
\* Gmail API, and once it is set none of them fails with that error.
C21_AuthenticationGate ==
    [][/\ (op'.name \in GmailApiCalls /\ gmail.service = None)
            => (op'.result = "AuthenticationError" /\ gmail' = gmail)
       /\ (op'.name \in GmailApiCalls /\ gmail.service # None)
            => op'.result # "AuthenticationError"
       /\ (op'.name = "GmailClient.authenticate" /\ op'.result = "True")
            => gmail'.service # None
       /\ gmail.service # None => gmail'.service # None
       /\ (gmail.service = None /\ gmail'.service # None)
            => (op'.name = "GmailClient.authenticate" /\ op'.result = "True")]_vars

\* get_folders has failed on a client whose authenticate call stored
\* credentials and then failed to build the service
C21_Witness ==
    /\ op.name = "GmailClient.get_folders"
    /\ op.result = "AuthenticationError"
    /\ gmail.credentials # None
    /\ gmail.service = None
    /\ gmail.requests = 0

(***************************************************************************)
(* Memory and disk.                                                        *)
(***************************************************************************)
\* C22: after move_message(id, S, T) returns True the file T/{id}.json
\* exists and, when S is not T, S/{id}.json does not; a move of a message
\* that is in S while S/{id}.json is missing returns True all the same and
\* leaves the serialization of the moved message in T/{id}.json.
C22_MoveOnDisk ==
    [][(op'.name = "move_message" /\ Tracked(folders, op'.source)
                                  /\ Tracked(folders, op'.target))
       => (/\ op'.result = "True"
                => (/\ Exists(files', Path(op'.target, op'.id))
                    /\ op'.source # op'.target
                         => ~Exists(files', Path(op'.source, op'.id)))
           /\ (HasId(messages[op'.source], op'.id)
                  /\ ~Exists(files, Path(op'.source, op'.id)))
                => (/\ op'.result = "True"
                    /\ files'[Path(op'.target, op'.id)]
                         = to_dict(Found(op'.source, op'.id))))]_vars

\* a message whose file was missing has been moved to another folder, and
\* the target directory holds its file
C22_Witness ==
    /\ op.name = "move_message"
    /\ op.result = "True"
    /\ op.source # op.target
    /\ ~op.args.source_exists
    /\ Exists(files, Path(op.target, op.id))
    /\ files[Path(op.target, op.id)]
         = to_dict(messages[op.target][Len(messages[op.target])])

\* C23: when the write of the backing file fails in add_message(m, F) the
\* failure is raised, m is the last entry of F's collection all the same,
\* every other collection and every file is as before, and F/{m.id}.json
\* does not exist: memory holds an id that has no backing file.
C23_FailedWriteKeepsMessage ==
    [][(op'.name = "add_message" /\ op'.result = "IOFailure")
       => (/\ messages'[op'.source] = Append(messages[op'.source], op'.message[1])
           /\ DOMAIN messages' = DOMAIN messages
           /\ \A f \in DOMAIN messages \ {op'.source} : messages'[f] = messages[f]
           /\ files' = files
           /\ folders' = folders
           /\ ~Exists(files', Path(op'.source, op'.id)))]_vars

\* C24: when the directory cannot be made in create_folder(name), as when
\* it is on disk while name is untracked after a restart, the error is
\* raised, name is neither in the tracked list nor in the mapping
\* afterwards, and the store is as before.
C24_FailedCreateRegistersNothing ==
    [][(op'.name = "create_folder" /\ op'.result = "IOFailure")
       => (/\ ~Tracked(folders', op'.source)
           /\ op'.source \notin DOMAIN messages'
           /\ StoreUnchanged)]_vars

\* create_folder has failed on the directory an earlier store made, which
\* the restarted store does not track
C24_Witness ==
    /\ op.name = "create_folder"
    /\ op.result = "IOFailure"
    /\ op.source \in dirs
    /\ op.source \notin Range(DefaultFolders)
    /\ ~Tracked(folders, op.source)

\* C28: the sort keys of get_messages are comparable values in UTC
\* whichever format the date was read with: the call never fails on a
\* tracked folder, and two messages whose dates carry different UTC offsets
\* are yielded in the order of the instants they name, later first.
C28_KeysComparableInUtc ==
    (op.name = "get_messages" /\ Tracked(folders, op.source)) =>
        /\ op.result = "None"
        /\ \A i, j \in 1..Len(op.out) :
              (/\ i < j
               /\ Parseable(op.out[i].date) /\ Parseable(op.out[j].date)
               /\ op.out[i].date.off # op.out[j].date.off)
                  => Instant(op.out[i].date) >= Instant(op.out[j].date)

\* the last n elements of s, all of s when it has fewer
MostRecent(s, n) == SubSeq(s, IF n < Len(s) THEN Len(s) - n + 1 ELSE 1, Len(s))

\* C29: IMAPFetcher.fetch_messages(folder, limit) with limit >= 0 sends a
\* fetch for at most limit emails and returns at most limit messages, and
\* the emails of the returned messages are among the last limit emails of
\* the server's folder, in the server's order.
C29_MostRecentLimit ==
    (op.name = "IMAPFetcher.fetch_messages" /\ op.result = "None"
     /\ op.args.limit >= 0) =>
        /\ Len(op.args.events) <= op.args.limit
        /\ Len(op.out) <= op.args.limit
        /\ IsSubsequence(op.args.sources, MostRecent(op.args.mailbox, op.args.limit))

\* the ids of the messages a folder holds in memory
IdsInMemory(folder) == {messages[folder][i].id : i \in 1..Len(messages[folder])}

\* the stems of the files in the directory of a folder
StemsOnDisk(folder) == {p[2] : p \in MessageFiles(files, folder)}

\* C30: in every state reached by add_message, move_message, delete_message
\* and create_folder calls whose writes to disk all succeed, each tracked
\* folder holds in memory the ids that are the stems of the files in its
\* directory.
C30_MemoryMatchesDisk ==
    \A k \in 1..Len(folders) : IdsInMemory(folders[k]) = StemsOnDisk(folders[k])

(***************************************************************************)
(* The files of the store under its operations.                            *)
(***************************************************************************)

\* the number of message files under data_dir, over all folder directories
FileCount(fs) == Cardinality(DOMAIN fs)

\* C31: the number of message files on disk decreases only in a
\* delete_message call on Trash; add_message and move_message never reduce
\* it, so a move never replaces a file already stored in the target folder.
C31_FilesLostOnlyInTrashDelete ==
    [][FileCount(files') < FileCount(files)
       => (op'.name = "delete_message" /\ op'.source = Trash)]_vars

(***************************************************************************)
(* Reading twice.                                                          *)
(***************************************************************************)

\* the calls that read the store
Reads == {"get_messages", "search_messages", "get_folders"}

\* the call of op' repeats the call of op: the same operation on the same
\* folder with the same limit or query, no earlier than the first
SameRead ==
    /\ op'.name = op.name
    /\ op'.source = op.source
    /\ op.name = "get_messages"
         => /\ op'.args.limit = op.args.limit
            /\ \A i \in DOMAIN op.args.clock, j \in DOMAIN op'.args.clock :
                   op.args.clock[i] <= op'.args.clock[j]
    /\ op.name = "search_messages" => op'.args.query = op.args.query

\* C32: get_messages and search_messages run to their end and get_folders
\* leave the tracked folders, every folder's collection and its order, and
\* every file as they were, and a read that repeats the read before it, with
\* no other call in between, gives the same result.
C32_ReadsArePure ==
    [][op'.name \in Reads
       => (/\ StoreUnchanged
           /\ SameRead => (op'.result = op.result /\ op'.out = op.out))]_vars

(***************************************************************************)
(* Moving a message within one folder.                                     *)
(***************************************************************************)

\* the step is a move_message(id, F, F) call on a tracked folder F that
\* holds the id
MovedWithinFolder ==
    /\ op'.name = "move_message"
    /\ op'.source = op'.target
    /\ Tracked(folders, op'.source)
    /\ HasId(messages[op'.source], op'.id)

\* the call returned True, the first message of F with the id became the
\* last entry of F and every other collection is as before
MovedToTheEnd ==
    /\ op'.result = "True"
    /\ DOMAIN messages' = DOMAIN messages
    /\ messages'[op'.source]
         = Append(Pop(messages[op'.source],
                      FindMessage(messages[op'.source], op'.id)),
                  Found(op'.source, op'.id))
    /\ \A f \in DOMAIN messages \ {op'.source} : messages'[f] = messages[f]

\* C33: move_message(id, F, F) with the id present in F returns True and
\* loses nothing: F holds the same messages, the moved one as the last
\* entry, and the same files as before.
C33_MoveWithinFolder ==
    [][MovedWithinFolder => (MovedToTheEnd /\ files' = files)]_vars

\* C33, amended: move_message(id, F, F) with the id present in F returns
\* True and loses nothing: F holds the same messages, the moved one as the
\* last entry; the files are as before when F/{id}.json existed, and when
\* it was missing the call writes the moved message's serialization to it
\* and leaves every other file as before.
C33_MoveWithinFolderAmended ==
    [][MovedWithinFolder
       => (/\ MovedToTheEnd
           /\ Exists(files, Path(op'.source, op'.id)) => files' = files
           /\ ~Exists(files, Path(op'.source, op'.id))
                => (/\ DOMAIN files' = DOMAIN files \cup {Path(op'.source, op'.id)}
                    /\ files'[Path(op'.source, op'.id)]
                         = to_dict(Found(op'.source, op'.id))
                    /\ \A p \in DOMAIN files : files'[p] = files[p]))]_vars

\* a message without a file was moved within its folder, behind another
\* message of the folder
C33_Witness ==
    /\ op.name = "move_message"
    /\ op.source = op.target
    /\ op.result = "True"
    /\ ~op.args.source_exists
    /\ Len(messages[op.source]) = 2
    /\ messages[op.source][1].id # op.id
    /\ messages[op.source][2].id = op.id
    /\ Exists(files, Path(op.source, op.id))

(***************************************************************************)
(* Iterating while the store changes.                                      *)
(***************************************************************************)

\* the listing get_messages gives of a folder's list: newest first, cut at
\* the limit
ListingOf(list, limit) ==
    get_messages([f \in {"F"} |-> list], <<"F">>, limit, "F",
                 [i \in 1..Len(list) |-> 0]).out

\* C34: a get_messages iterator yields from a snapshot taken when its first
\* item was requested: whatever add_message, move_message and delete_message
\* calls run between its items, what it has yielded is the beginning of the
\* listing of the folder as it was at the first request, and the whole of
\* that listing once it has ended.
C34_IteratorSnapshot ==
    (/\ iterator.kind = "get_messages"
     /\ iterator.state \in {"running", "done"})
    => LET listing == ListingOf(iterator.began_on, iterator.limit)
       IN  /\ Len(iterator.yielded) <= Len(listing)
           /\ iterator.yielded = SubSeq(listing, 1, Len(iterator.yielded))
           /\ iterator.state = "done" => iterator.yielded = listing

\* an iterator has ended after yielding a message added between the call
\* and the first request, while the folder it listed no longer holds what
\* it yielded
C34_Witness ==
    /\ iterator.kind = "get_messages"
    /\ iterator.state = "done"
    /\ Len(iterator.yielded) = 2
    /\ iterator.called_on # iterator.began_on
    /\ iterator.yielded # ListingOf(iterator.called_on, iterator.limit)
    /\ messages[iterator.folder] # iterator.began_on

\* C35: a search_messages iteration whose caller deletes or moves every
\* yielded message out of the searched folder ends without an error, having
\* yielded each message that matched when the iteration began exactly once.
C35_ViewThenDelete ==
    (/\ iterator.kind = "search_messages"
     /\ iterator.state \notin {"created", "running"})
    => /\ iterator.state = "done"
       /\ LET Test(message) == QueryMatches(lower(iterator.query), message)
          IN  iterator.yielded = SelectSeq(iterator.began_on, Test)

(***************************************************************************)
(* Marking a message.                                                      *)
(***************************************************************************)

\* the calls that set the read flag
Marks == {"mark_as_read", "mark_as_unread"}

\* C36: mark_as_read and mark_as_unread change only the is_read flag of the
\* message they are called on, in memory: no file changes, every folder
\* holds the same messages at the same places with every other field as
\* before, each call leaves a flag that already has its value as it is, and
\* mark_as_unread after mark_as_read on a message leaves its flag false.
C36_MarkChangesOnlyTheFlag ==
    [][op'.name \in Marks
       => LET F == op'.source
              i == op'.args.position
              value == (op'.name = "mark_as_read")
          IN  /\ UNCHANGED <<folders, dirs, files>>
              /\ DOMAIN messages' = DOMAIN messages
              /\ \A f \in DOMAIN messages :
                    /\ Len(messages'[f]) = Len(messages[f])
                    /\ \A j \in 1..Len(messages[f]) :
                          <<f, j>> # <<F, i>> => messages'[f][j] = messages[f][j]
              /\ messages'[F][i] = [messages[F][i] EXCEPT !.is_read = value]
              /\ messages[F][i].is_read = value => messages' = messages
              /\ (op.name = "mark_as_read" /\ op'.name = "mark_as_unread"
                    /\ op.source = F /\ op.args.position = i)
                   => ~messages'[F][i].is_read]_vars

\* a message was marked unread right after it was marked read, in a folder
\* that holds another message that is marked read, while the files of both
\* say unread
C36_Witness ==
    /\ op.name = "mark_as_unread"
    /\ Len(messages[op.source]) = 2
    /\ ~messages[op.source][op.args.position].is_read
    /\ \E j \in 1..2 : messages[op.source][j].is_read
    /\ \A p \in DOMAIN files : ~files[p].is_read
    /\ Cardinality(DOMAIN files) = 2

(***************************************************************************)
(* Messages of one instant.                                                *)
(***************************************************************************)

\* the messages of a list whose dates parse to the hour t, in list order
AtInstant(list, t) ==
    LET Test(message) == Parseable(message.date) /\ Instant(message.date) = t
    IN  SelectSeq(list, Test)

\* C37: get_messages yields the messages whose dates parse to one instant
\* in their storage order: those it yields of an instant are the first of
\* that instant in the folder's list, in the order of the list; on a folder
\* whose dates all parse the listing is the same whatever the clock reads.
C37_StableListing ==
    (op.name = "get_messages" /\ op.result = "None") =>
        LET list == messages[op.source]
        IN  /\ \A t \in MinHour..MaxHour :
                  LET yielded == AtInstant(op.out, t)
                  IN  /\ Len(yielded) <= Len(AtInstant(list, t))
                      /\ yielded = SubSeq(AtInstant(list, t), 1, Len(yielded))
            /\ (\A i \in 1..Len(list) : Parseable(list[i].date))
                  => \A clock \in Clocks(Len(list)) :
                        get_messages(messages, folders, op.args.limit, op.source,
                                     clock).out = op.out

\* two messages that name one instant in different formats were listed, the
\* one stored first being yielded first
C37_Witness ==
    /\ op.name = "get_messages"
    /\ op.result = "None"
    /\ Len(op.out) = 2
    /\ op.out[1].date # op.out[2].date
    /\ Instant(op.out[1].date) = Instant(op.out[2].date)
    /\ op.out[1].date.fmt = "dmy_tz"
    /\ messages[op.source] = op.out

(***************************************************************************)
(* The credentials behind the Gmail service.                               *)
(***************************************************************************)

\* the token file holds credentials that are not valid and that
\* authenticate does not refresh: they are not expired or have no refresh
\* token
StoredUnusable ==
    /\ gmail.token # None
    /\ ~gmail.token[1].valid
    /\ ~(gmail.token[1].expired /\ gmail.token[1].refresh_token)

\* C38: authenticate returns True and installs the service only with valid
\* credentials: a stored token that is valid, an expired one it refreshed,
\* or credentials from the OAuth flow.  Stored credentials that are invalid
\* and cannot be refreshed are never used to build the service, and without
\* a credentials file the call then raises AuthenticationError and leaves
\* the service as it was.
C38_ServiceNeedsValidCredentials ==
    [][op'.name = "GmailClient.authenticate"
       => (/\ op'.result = "True"
                => (/\ gmail'.service # None
                    /\ gmail'.service[1].valid
                    /\ \/ gmail.token # None /\ gmail.token[1].valid
                       \/ /\ gmail.token # None
                          /\ gmail.token[1].expired /\ gmail.token[1].refresh_token
                          /\ op'.args.refresh
                       \/ gmail.secrets /\ op'.args.flow)
           /\ gmail'.service # gmail.service => op'.result = "True"
           /\ (StoredUnusable /\ ~gmail.secrets)
                => (op'.result = "AuthenticationError"
                    /\ gmail'.service = gmail.service))]_vars

====
